---- MODULE Spec2Model ----
(***************************************************************************)
(* CTA train metrics: the GTFS expected-schedule Lambda                    *)
(* (src/lambdas/gtfs_expected_schedule/main.py) under specification Spec,  *)
(* and the schedule page of the dashboard (src/pages/schedule.py) under    *)
(* specification SpecPage; the GTFS fetch Lambda                           *)
(* (src/lambdas/gtfs_data_fetch/main.py) under SpecFetch; the train        *)
(* location Lambda (src/lambdas/train_location_fetch/main.py) under        *)
(* SpecTrain, and its fetch_cta_data called by itself under SpecRetry.     *)
(*                                                                         *)
(* A pandas DataFrame is a sequence of rows, a row is a record keyed by    *)
(* column name.  The bucket holds the five GTFS tables under gtfs_data/;   *)
(* the handler reads them in the order of GTFS_FILES, joins them and puts  *)
(* one object.  What get_object and put_object answer is the environment's *)
(* choice at the moment of the call.                                       *)
(***************************************************************************)
EXTENDS Integers, Sequences, FiniteSets, TLC

VARIABLES
    gtfs_data,          \* bucket objects gtfs_data/<file>: file stem -> table
    store,              \* objects written by put_object: Key -> Body
    pc,                 \* position of the handler
    fileIdx,            \* read_gtfs_data: index into GTFS_FILES of the next file
    dataframes,         \* read_gtfs_data: df_name -> DataFrame read so far
    processed,          \* handler: what processs_gtfs_data returned
    error,              \* the exception leaving the handler, "none" when none
    getCalls,           \* Keys passed to get_object by this invocation
    putCalls,           \* put_object calls of this invocation
    runs,               \* number of invocations started
    entryStore,         \* the store as it was when this invocation started
    log                 \* one entry per invocation that returned normally

vars == <<gtfs_data, store, pc, fileIdx, dataframes, processed, error,
          getCalls, putCalls, runs, entryStore, log>>

\* The schedule page, one run of the script
VARIABLES
    historical_schedule_data,       \* the rows read from the parquet files
    page,                           \* position of the page script
    current_effective_date,         \* str(max start_date) of the loaded rows
    line,                           \* the selected Line
    schedule_type,                  \* the selected Schedule
    df_filtered_schedules,          \* registered as filtered_schedules
    df_trains_per_hour,
    df_average_headway,
    df_aggregate_scheduled_trains

pageVars == <<historical_schedule_data, page, current_effective_date, line,
              schedule_type, df_filtered_schedules, df_trains_per_hour,
              df_average_headway, df_aggregate_scheduled_trains>>

\* The GTFS fetch Lambda
VARIABLES
    gtfs_last_modified_time,    \* Parameter Store: value of gtfs_last_modified_time
    gtfs_objects,               \* bucket: Key -> the feed version whose file it holds
    fetch_pc,                   \* position of the handler
    response,                   \* what requests.get returned
    last_modified_dt,           \* the parsed Last-Modified header
    stored_last_modified,       \* what get_last_modified_time returned
    file_index,                 \* upload_gtfs_zip_to_s3: next entry of infolist()
    upload_calls,               \* upload_fileobj calls of this invocation
    ssm_calls,                  \* Parameter Store calls of this invocation
    fetch_result,               \* what the handler returned or raised
    fetch_log                   \* one entry per finished invocation

fetchVars == <<gtfs_last_modified_time, gtfs_objects, fetch_pc, response,
               last_modified_dt, stored_last_modified, file_index, upload_calls, ssm_calls,
               fetch_result, fetch_log>>

\* The train location Lambda
VARIABLES
    function_name,      \* context.function_name, split at its hyphens
    train_pc,           \* position of the handler
    futures,            \* submitted line -> state of its fetch_cta_data call
    completed,          \* the lines in the order their futures finished
    yield_queue,        \* as_completed: futures found finished when it was called
    yielded,            \* the lines in the order as_completed yielded them
    all_data,
    payload,
    firehose,           \* records put on the delivery stream
    train_result        \* what the handler returned or raised

trainVars == <<function_name, train_pc, futures, completed, yield_queue, yielded,
               all_data, payload, firehose, train_result>>

allVars == <<vars, pageVars, fetchVars, trainVars>>

---------------------------------------------------------------------------
(* Bounds of the model *)

MaxRows == 2        \* rows of calendar, routes and stops
MaxTrips == 1       \* rows of trips and of stop_times
MaxRuns == 2        \* invocations of the handler

---------------------------------------------------------------------------
(* Program constants *)

GTFS_FILES == <<"calendar", "routes", "stops", "stop_times", "trips">>

TRAIN_LINES ==
    {"Red Line", "Purple Line", "Yellow Line", "Blue Line",
     "Pink Line", "Green Line", "Orange Line", "Brown Line"}

RailStopMin == 30000
RailStopEnd == 40000

GtfsKey(file) == "gtfs_data/" \o file \o ".txt"

---------------------------------------------------------------------------
(* Input rows.  Each universe holds a row that survives the filters and    *)
(* the joins and a row that does not (a bus route name, a bus stop, a      *)
(* service no trip uses, a trip of a route without a row); a table may     *)
(* repeat a row.                                                           *)

Range(s) == {s[i] : i \in DOMAIN s}

CalendarColumns ==
    <<"service_id", "monday", "tuesday", "wednesday", "thursday", "friday",
      "saturday", "sunday", "start_date", "end_date">>

CalendarRow(sid, wk, sat, sun, from, to) ==
    [service_id |-> sid, monday |-> wk, tuesday |-> wk, wednesday |-> wk,
     thursday |-> wk, friday |-> wk, saturday |-> sat, sunday |-> sun,
     start_date |-> from, end_date |-> to]

CalendarRows ==
    <<CalendarRow("X", 1, 0, 0, 20260106, 20261231),
      CalendarRow("Y", 0, 1, 1, 20260101, 20260630)>>

RouteRows ==
    <<[route_id |-> "R1", route_long_name |-> "Red Line", route_color |-> "C60C30"],
      [route_id |-> "R1", route_long_name |-> "J14", route_color |-> "565A5C"]>>

StopRows ==
    <<[stop_id |-> 30000, stop_name |-> "Grand"],
      [stop_id |-> 40000, stop_name |-> "Bus Terminal"]>>

StopTimeRows ==
    <<[trip_id |-> "T1", arrival_time |-> "08:15:00", departure_time |-> "08:15:30",
       stop_id |-> 30000, stop_sequence |-> 1],
      [trip_id |-> "T1", arrival_time |-> "08:20:00", departure_time |-> "08:20:30",
       stop_id |-> 40000, stop_sequence |-> 2]>>

TripRows ==
    <<[route_id |-> "R1", service_id |-> "X", trip_id |-> "T1", direction_id |-> 0],
      [route_id |-> "R2", service_id |-> "X", trip_id |-> "T2", direction_id |-> 1]>>

\* The tables of at most n rows over a universe, up to row order: the row
\* order of an input only permutes the rows of the result.
Tables(universe, n) ==
    LET Idx == UNION {[1..k -> DOMAIN universe] : k \in 0..n}
        Sorted(s) == \A i \in 1..(Len(s) - 1) : s[i] <= s[i + 1]
    IN  {[i \in DOMAIN s |-> universe[s[i]]] : s \in {t \in Idx : Sorted(t)}}

Feeds ==
    [calendar : Tables(CalendarRows, MaxRows),
     routes : Tables(RouteRows, MaxRows),
     stops : Tables(StopRows, MaxRows),
     stop_times : Tables(StopTimeRows, MaxTrips),
     trips : Tables(TripRows, MaxTrips)]

---------------------------------------------------------------------------
(* pandas *)

\* df[[c1, c2, ...]]
SelectColumns(df, cols) ==
    [i \in DOMAIN df |-> [c \in Range(cols) |-> df[i][c]]]

\* df.drop(columns=[...])
DropColumns(df, cols) ==
    [i \in DOMAIN df |-> [c \in (DOMAIN df[i]) \ cols |-> df[i][c]]]

\* pd.merge(left, right, on=key, how="inner"): every pair of a left row and a
\* right row with equal keys, in the order of the left rows.
RECURSIVE Merge(_, _, _)
Merge(left, right, on) ==
    IF left = <<>> THEN <<>>
    ELSE LET l == Head(left)
             matches == SelectSeq(right, LAMBDA r : r[on] = l[on])
         IN  [i \in DOMAIN matches |-> l @@ matches[i]]
                 \o Merge(Tail(left), right, on)

\* The columns of a merge: the left ones, then the right ones without the key.
MergeColumns(leftCols, rightCols, on) ==
    leftCols \o SelectSeq(rightCols, LAMBDA c : c # on)

---------------------------------------------------------------------------
(* processs_gtfs_data *)

\* Mutant: the allow-list test inverted.
IsNotTrainLine(row) == row.route_long_name \notin TRAIN_LINES

IsTrainLine(row) == row.route_long_name \in TRAIN_LINES

\* Mutant: the upper end of the stop range taken as inclusive.
IsRailStopInclusive(row) == row.stop_id >= RailStopMin /\ row.stop_id <= RailStopEnd

IsRailStop(row) == row.stop_id >= RailStopMin /\ row.stop_id < RailStopEnd

RouteColumns == <<"route_id", "route_long_name", "route_color">>
StopColumns == <<"stop_id", "stop_name">>
StopTimeColumns ==
    <<"trip_id", "arrival_time", "departure_time", "stop_id", "stop_sequence">>
TripColumns == <<"route_id", "service_id", "trip_id", "direction_id">>

DroppedCalendarColumns == {"start_date", "end_date"}

CalendarFiltered(calendar_df) == DropColumns(calendar_df, DroppedCalendarColumns)

\* Mutant: the routes query left out.
RoutesUnfiltered(routes_df) == SelectColumns(routes_df, RouteColumns)

RoutesFiltered(routes_df) ==
    SelectSeq(SelectColumns(routes_df, RouteColumns), IsTrainLine)

StopsFiltered(stops_df) ==
    SelectSeq(SelectColumns(stops_df, StopColumns), IsRailStop)

StopTimesFiltered(stop_times_df) ==
    SelectSeq(SelectColumns(stop_times_df, StopTimeColumns), IsRailStop)

TripsFiltered(trips_df) == SelectColumns(trips_df, TripColumns)

\* Step 2: the four inner joins.  The "index" column that reset_index() adds
\* to three of the frames is dropped again right after the merge that brings
\* it in, so it is not carried here.
CombinedDf(dfs) ==
    LET m1 == Merge(RoutesFiltered(dfs.routes), TripsFiltered(dfs.trips), "route_id")
        m2 == Merge(m1, CalendarFiltered(dfs.calendar), "service_id")
        m3 == Merge(m2, StopTimesFiltered(dfs.stop_times), "trip_id")
    IN  Merge(m3, StopsFiltered(dfs.stops), "stop_id")

\* The columns of combined_df, which an empty result has as well.
CombinedColumns ==
    LET calCols == SelectSeq(CalendarColumns, LAMBDA c : c \notin DroppedCalendarColumns)
        c1 == MergeColumns(RouteColumns, TripColumns, "route_id")
        c2 == MergeColumns(c1, calCols, "service_id")
        c3 == MergeColumns(c2, StopTimeColumns, "trip_id")
    IN  MergeColumns(c3, StopColumns, "stop_id")

\* What the function hands back, by name: the code returns combined_df alone.
processs_gtfs_data(dfs) == [schedule |-> CombinedDf(dfs)]

---------------------------------------------------------------------------
(* save_to_s3 *)

\* df.to_csv(index=False): a header line, then one line per row with the
\* values in column order.
ToCsv(df) ==
    [header |-> CombinedColumns,
     lines |-> [i \in DOMAIN df |->
                   [c \in DOMAIN CombinedColumns |-> df[i][CombinedColumns[c]]]]]

\* Mutant: a key that differs from one invocation to the next.
ScheduleKeyPerRun == "gtfs_expected_cta_schedule_" \o ToString(runs) \o ".csv"

ScheduleKey == "gtfs_expected_cta_schedule.csv"

PutRequest(df) == [Key |-> ScheduleKey, Body |-> ToCsv(df)]

---------------------------------------------------------------------------
(* handler *)

NoDataframes == <<>>
NoObjects == <<>>
NotProcessed == <<>>

\* The page is not open while the Lambda is under study.
\* The GTFS fetch Lambda is not deployed: no parameter, no object, no call.
FetchAbsent ==
    /\ gtfs_last_modified_time = <<>>
    /\ gtfs_objects = {}
    /\ fetch_pc = "absent"
    /\ response = "None"
    /\ last_modified_dt = <<>>
    /\ stored_last_modified = <<>>
    /\ file_index = 1
    /\ upload_calls = <<>>
    /\ ssm_calls = <<>>
    /\ fetch_result = "None"
    /\ fetch_log = <<>>

\* The train location Lambda is not deployed.
TrainAbsent ==
    /\ function_name = <<>>
    /\ train_pc = "absent"
    /\ futures = <<>>
    /\ completed = <<>>
    /\ yield_queue = <<>>
    /\ yielded = <<>>
    /\ all_data = <<>>
    /\ payload = "None"
    /\ firehose = <<>>
    /\ train_result = "None"

PageClosed ==
    /\ historical_schedule_data = <<>>
    /\ page = "closed"
    /\ current_effective_date = "None"
    /\ line = "None"
    /\ schedule_type = "None"
    /\ df_filtered_schedules = <<>>
    /\ df_trains_per_hour = <<>>
    /\ df_average_headway = <<>>
    /\ df_aggregate_scheduled_trains = <<>>

Init ==
    /\ gtfs_data \in Feeds
    /\ store = NoObjects
    /\ pc = "idle"
    /\ fileIdx = 1
    /\ dataframes = NoDataframes
    /\ processed = NotProcessed
    /\ error = "none"
    /\ getCalls = <<>>
    /\ putCalls = <<>>
    /\ runs = 0
    /\ entryStore = NoObjects
    /\ log = <<>>
    /\ PageClosed
    /\ FetchAbsent
    /\ TrainAbsent

\* handler(event, context) is entered.
Invoke ==
    /\ pc = "idle"
    /\ runs < MaxRuns
    /\ runs' = runs + 1
    /\ entryStore' = store
    /\ pc' = "read_gtfs_data"
    /\ UNCHANGED <<gtfs_data, store, fileIdx, dataframes, processed, error, getCalls,
                   putCalls, log>>
    /\ UNCHANGED <<pageVars, fetchVars, trainVars>>

\* get_object answers with the object and read_csv parses it.
ReadFile ==
    /\ pc = "read_gtfs_data"
    /\ LET file == GTFS_FILES[fileIdx] IN
        /\ getCalls' = Append(getCalls, GtfsKey(file))
        /\ dataframes' = (file :> gtfs_data[file]) @@ dataframes
        /\ fileIdx' = fileIdx + 1
        /\ pc' = IF fileIdx = Len(GTFS_FILES) THEN "processs_gtfs_data"
                 ELSE "read_gtfs_data"
    /\ UNCHANGED <<gtfs_data, store, processed, error, putCalls, runs, entryStore, log>>
    /\ UNCHANGED <<pageVars, fetchVars, trainVars>>

\* Mutant: the ClientError is logged and the loop goes on to the next file.
ReadFileMissingSkipped ==
    /\ pc = "read_gtfs_data"
    /\ getCalls' = Append(getCalls, GtfsKey(GTFS_FILES[fileIdx]))
    /\ fileIdx' = fileIdx + 1
    /\ pc' = IF fileIdx = Len(GTFS_FILES) THEN "raised" ELSE "read_gtfs_data"
    /\ error' = IF fileIdx = Len(GTFS_FILES) THEN "KeyError" ELSE error
    /\ UNCHANGED <<gtfs_data, store, dataframes, processed, putCalls, runs, entryStore, log>>
    /\ UNCHANGED <<pageVars, fetchVars, trainVars>>

\* get_object raises ClientError (the object is missing): logged and re-raised.
ReadFileMissing ==
    /\ pc = "read_gtfs_data"
    /\ getCalls' = Append(getCalls, GtfsKey(GTFS_FILES[fileIdx]))
    /\ error' = "ClientError"
    /\ pc' = "raised"
    /\ UNCHANGED <<gtfs_data, store, fileIdx, dataframes, processed, putCalls, runs, entryStore, log>>
    /\ UNCHANGED <<pageVars, fetchVars, trainVars>>

\* get_object answers with a zero-byte object: read_csv raises EmptyDataError,
\* which nothing catches.
ReadFileEmpty ==
    /\ pc = "read_gtfs_data"
    /\ getCalls' = Append(getCalls, GtfsKey(GTFS_FILES[fileIdx]))
    /\ error' = "EmptyDataError"
    /\ pc' = "raised"
    /\ UNCHANGED <<gtfs_data, store, fileIdx, dataframes, processed, putCalls, runs, entryStore, log>>
    /\ UNCHANGED <<pageVars, fetchVars, trainVars>>

Process ==
    /\ pc = "processs_gtfs_data"
    /\ processed' = processs_gtfs_data(dataframes)
    /\ pc' = "save_to_s3"
    /\ UNCHANGED <<gtfs_data, store, fileIdx, dataframes, error, getCalls, putCalls,
                   runs, entryStore, log>>
    /\ UNCHANGED <<pageVars, fetchVars, trainVars>>

\* put_object succeeds: the object under Key is replaced.
SaveToS3 ==
    /\ pc = "save_to_s3"
    /\ LET req == PutRequest(processed.schedule) IN
        /\ putCalls' = Append(putCalls, req)
        /\ store' = (req.Key :> req.Body) @@ store
    /\ pc' = "returned"
    /\ UNCHANGED <<gtfs_data, fileIdx, dataframes, processed, error, getCalls, runs, entryStore, log>>
    /\ UNCHANGED <<pageVars, fetchVars, trainVars>>

\* Mutant: the ClientError is logged and not re-raised.
SaveToS3FailsSwallowed ==
    /\ pc = "save_to_s3"
    /\ putCalls' = Append(putCalls, PutRequest(processed.schedule))
    /\ pc' = "returned"
    /\ UNCHANGED <<gtfs_data, store, fileIdx, dataframes, processed, error, getCalls, runs,
                   entryStore, log>>
    /\ UNCHANGED <<pageVars, fetchVars, trainVars>>

\* put_object raises ClientError: logged and re-raised.
SaveToS3Fails ==
    /\ pc = "save_to_s3"
    /\ putCalls' = Append(putCalls, PutRequest(processed.schedule))
    /\ error' = "ClientError"
    /\ pc' = "raised"
    /\ UNCHANGED <<gtfs_data, store, fileIdx, dataframes, processed, getCalls, runs, entryStore, log>>
    /\ UNCHANGED <<pageVars, fetchVars, trainVars>>

\* The invocation is over and its locals are gone; the next one may start.
Finish ==
    /\ pc \in {"returned", "raised"}
    /\ log' = IF pc = "returned"
              THEN Append(log, [processed |-> processed, puts |-> putCalls,
                                store |-> store])
              ELSE log
    /\ pc' = "idle"
    /\ fileIdx' = 1
    /\ dataframes' = NoDataframes
    /\ processed' = NotProcessed
    /\ error' = "none"
    /\ getCalls' = <<>>
    /\ putCalls' = <<>>
    /\ UNCHANGED <<gtfs_data, store, runs, entryStore>>
    /\ UNCHANGED <<pageVars, fetchVars, trainVars>>

Next ==
    \/ Invoke
    \/ ReadFile
    \/ ReadFileMissing
    \/ ReadFileEmpty
    \/ Process
    \/ SaveToS3
    \/ SaveToS3Fails
    \/ Finish

Spec == Init /\ [][Next]_allVars


---------------------------------------------------------------------------
(* Properties of the derived schedule *)

\* The handler holds the result of processs_gtfs_data.
Processed == pc \in {"save_to_s3", "returned"}

DayColumns ==
    {"monday", "tuesday", "wednesday", "thursday", "friday", "saturday", "sunday"}

\* row is the combination of these five input rows, which agree on the keys.
RowComesFrom(row, route, trip, cal, st, stop) ==
    /\ route.route_id = trip.route_id
    /\ trip.service_id = cal.service_id
    /\ trip.trip_id = st.trip_id
    /\ st.stop_id = stop.stop_id
    /\ \A c \in Range(RouteColumns) : row[c] = route[c]
    /\ \A c \in Range(TripColumns) : row[c] = trip[c]
    /\ \A c \in DayColumns : row[c] = cal[c]
    /\ \A c \in Range(StopTimeColumns) : row[c] = st[c]
    /\ \A c \in Range(StopColumns) : row[c] = stop[c]

\* C1: every row of the table processs_gtfs_data returns has a route_long_name
\* among the eight rail lines and a stop_id in [30000, 40000), and is the
\* combination of a route, a trip, a calendar, a stop_time and a stop row of
\* the input that agree on route_id, service_id, trip_id and stop_id.
C1_RowsAreRailJoinMatches ==
    Processed =>
        \A i \in DOMAIN processed.schedule :
            LET row == processed.schedule[i] IN
            /\ row.route_long_name \in TRAIN_LINES
            /\ row.stop_id >= RailStopMin
            /\ row.stop_id < RailStopEnd
            /\ \E route \in Range(gtfs_data.routes), trip \in Range(gtfs_data.trips),
                  cal \in Range(gtfs_data.calendar), st \in Range(gtfs_data.stop_times),
                  stop \in Range(gtfs_data.stops) :
                    RowComesFrom(row, route, trip, cal, st, stop)

\* Rows came out of a feed that also holds a bus route and a bus stop.
C1_Witness ==
    /\ Processed
    /\ Len(processed.schedule) >= 2
    /\ \E r \in Range(gtfs_data.routes) : r.route_long_name \notin TRAIN_LINES
    /\ \E p \in Range(gtfs_data.stops) : p.stop_id >= RailStopEnd

InRange(stop_id) == stop_id >= RailStopMin /\ stop_id < RailStopEnd

\* The (trip, stop-time) pairs of the input whose trip has a rail route row
\* and a calendar row and whose stop_id is a rail platform's.
TripStopTimePairs ==
    {<<t, s>> \in (DOMAIN gtfs_data.trips) \X (DOMAIN gtfs_data.stop_times) :
        LET trip == gtfs_data.trips[t]
            st == gtfs_data.stop_times[s] IN
        /\ trip.trip_id = st.trip_id
        /\ InRange(st.stop_id)
        /\ \E r \in Range(gtfs_data.routes) :
              r.route_id = trip.route_id /\ r.route_long_name \in TRAIN_LINES
        /\ \E c \in Range(gtfs_data.calendar) : c.service_id = trip.service_id}

\* The combinations of one row of each input that agree on the keys, with a
\* rail route and a rail stop.
JoinCombinations ==
    {ix \in (DOMAIN gtfs_data.routes) \X (DOMAIN gtfs_data.trips)
            \X (DOMAIN gtfs_data.calendar) \X (DOMAIN gtfs_data.stop_times)
            \X (DOMAIN gtfs_data.stops) :
        LET route == gtfs_data.routes[ix[1]]
            trip == gtfs_data.trips[ix[2]]
            cal == gtfs_data.calendar[ix[3]]
            st == gtfs_data.stop_times[ix[4]]
            stop == gtfs_data.stops[ix[5]] IN
        /\ route.route_long_name \in TRAIN_LINES
        /\ route.route_id = trip.route_id
        /\ trip.service_id = cal.service_id
        /\ trip.trip_id = st.trip_id
        /\ InRange(st.stop_id)
        /\ st.stop_id = stop.stop_id}

Unique(df, key) == \A i, j \in DOMAIN df : df[i][key] = df[j][key] => i = j

KeysUnique ==
    /\ Unique(gtfs_data.routes, "route_id")
    /\ Unique(gtfs_data.calendar, "service_id")
    /\ Unique(gtfs_data.stops, "stop_id")

EveryRailStopTimeHasItsStop ==
    \A st \in Range(gtfs_data.stop_times) :
        InRange(st.stop_id) =>
            \E stop \in Range(gtfs_data.stops) : stop.stop_id = st.stop_id

\* C2 as stated: for all inputs the number of output rows is the number of
\* (trip, stop-time) pairs whose trip has a rail route row and a calendar row
\* and whose stop_id is in [30000, 40000).
C2_RowCountIsPairCount ==
    Processed => Len(processed.schedule) = Cardinality(TripStopTimePairs)

\* C2 amended: the number of output rows is the number of combinations of a
\* route, trip, calendar, stop-time and stop row that agree on the keys with a
\* rail route and a rail stop; it is the number of (trip, stop-time) pairs when
\* route_id, service_id and stop_id are unique in their tables and every
\* stop-time in range has its row in stops.
C2_RowCountIsCombinationCount ==
    Processed =>
        /\ Len(processed.schedule) = Cardinality(JoinCombinations)
        /\ (KeysUnique /\ EveryRailStopTimeHasItsStop) =>
              Len(processed.schedule) = Cardinality(TripStopTimePairs)

\* Two rows came out of a single (trip, stop-time) pair through repeated keys.
C2_Witness ==
    /\ Processed
    /\ ~KeysUnique
    /\ Len(processed.schedule) = 2
    /\ Cardinality(JoinCombinations) = 2

Min(S) == CHOOSE x \in S : \A y \in S : x <= y

StartDates(df) == {df[i].start_date : i \in DOMAIN df}

\* C3 as stated: processs_gtfs_data returns the pair (schedule table,
\* effective_date) with effective_date the least start_date of the calendar.
C3_ReturnsScheduleAndEffectiveDate ==
    (Processed /\ gtfs_data.calendar # <<>>) =>
        /\ DOMAIN processed = {"schedule", "effective_date"}
        /\ processed.effective_date = Min(StartDates(gtfs_data.calendar))


---------------------------------------------------------------------------
(* Properties of the handler *)

AllStartDates == {CalendarRows[i].start_date : i \in DOMAIN CalendarRows}

EffectiveDateKey(D) == "gtfs_expected_cta_schedule/" \o ToString(D) \o ".csv"

\* C5 as stated: an invocation that returns normally has made exactly one
\* put_object call, under the key gtfs_expected_cta_schedule/<D>.<ext> of an
\* effective date D.
C5_OneWriteKeyedByEffectiveDate ==
    pc = "returned" =>
        /\ Len(putCalls) = 1
        /\ \E D \in AllStartDates : putCalls[1].Key = EffectiveDateKey(D)

\* A get_object call of this invocation gave no dataframe.
ReadFailed == Len(getCalls) > Cardinality(DOMAIN dataframes)

AllRead == DOMAIN dataframes = Range(GTFS_FILES)

\* C7 as stated: with no calendar rows the handler ends in a "no effective
\* date" error, not the error of a failed read, and puts nothing.
C7_NoCalendarRowsIsAnError ==
    (AllRead /\ dataframes["calendar"] = <<>> /\ pc \in {"returned", "raised"}) =>
        /\ pc = "raised"
        /\ error = "NoEffectiveDate"
        /\ putCalls = <<>>

\* C8: save_to_s3 calls put_object once; the handler returns normally only
\* when the object is stored, and otherwise raises the ClientError with the
\* store left as it was.
C8_WriteFailurePropagates ==
    putCalls # <<>> =>
        /\ Len(putCalls) = 1
        /\ pc \in {"returned", "raised"}
        /\ pc = "returned" =>
              /\ error = "none"
              /\ putCalls[1].Key \in DOMAIN store
              /\ store[putCalls[1].Key] = putCalls[1].Body
        /\ pc = "raised" =>
              /\ error = "ClientError"
              /\ store = entryStore

\* The first invocation's put_object failed on a schedule with rows.
C8_Witness ==
    /\ pc = "raised"
    /\ Len(putCalls) = 1
    /\ putCalls[1].Body.lines # <<>>
    /\ store = NoObjects

\* The feed would yield rows if its routes were rail lines.
OtherwiseValidFeed ==
    \E trip \in Range(gtfs_data.trips), route \in Range(gtfs_data.routes),
       cal \in Range(gtfs_data.calendar), st \in Range(gtfs_data.stop_times),
       stop \in Range(gtfs_data.stops) :
        /\ route.route_id = trip.route_id
        /\ trip.service_id = cal.service_id
        /\ trip.trip_id = st.trip_id
        /\ InRange(st.stop_id)
        /\ st.stop_id = stop.stop_id

OnlyBusRoutes ==
    /\ gtfs_data.routes # <<>>
    /\ \A r \in Range(gtfs_data.routes) : r.route_long_name = "J14"

\* C9: when every route of the feed is named "J14" the handler gets an empty
\* table from processs_gtfs_data and, unless put_object fails, returns
\* normally with a body of no lines stored.
C9_BusRouteGivesEmptySchedule ==
    OnlyBusRoutes =>
        /\ Processed => processed.schedule = <<>>
        /\ pc = "returned" => error = "none" /\ store[ScheduleKey].lines = <<>>
        /\ pc = "raised" => (ReadFailed \/ putCalls # <<>>)

\* The handler returned normally on a feed whose one route is a bus route.
C9_Witness ==
    /\ OnlyBusRoutes
    /\ OtherwiseValidFeed
    /\ pc = "returned"
    /\ store[ScheduleKey].lines = <<>>

\* The value of a stored line in the named column; the column must exist.
HasColumn(body, name) == \E c \in DOMAIN body.header : body.header[c] = name

Column(body, name) == CHOOSE c \in DOMAIN body.header : body.header[c] = name

\* C10 as stated: every stored row carries the start_date and end_date of its
\* calendar row.
C10_StoredRowsCarryCalendarDates ==
    \A k \in DOMAIN store :
        \A i \in DOMAIN store[k].lines :
            /\ HasColumn(store[k], "start_date")
            /\ HasColumn(store[k], "end_date")
            /\ \E cal \in Range(gtfs_data.calendar) :
                  /\ store[k].lines[i][Column(store[k], "service_id")] = cal.service_id
                  /\ store[k].lines[i][Column(store[k], "start_date")] = cal.start_date
                  /\ store[k].lines[i][Column(store[k], "end_date")] = cal.end_date

---------------------------------------------------------------------------
(***************************************************************************)
(* The schedule page (src/pages/schedule.py).                              *)
(*                                                                         *)
(* A VARCHAR whose characters the queries look at (arrival_time, the       *)
(* formatted headway) is the sequence of its characters: a digit is its    *)
(* value and ':' is Colon, which sorts after every digit as it does in     *)
(* ASCII.  A relation is a sequence of rows.                               *)
(***************************************************************************)

MaxScheduleRows == 4        \* rows of historical_schedule_data

Colon == 10

\* "HH:MM:SS"
TimeString(h, m, sec) ==
    <<h \div 10, h % 10, Colon, m \div 10, m % 10, Colon, sec \div 10, sec % 10>>

ColonsIn(str) == {i \in DOMAIN str : str[i] = Colon}

\* split_part(str, ':', n)
RECURSIVE SplitPart(_, _)
SplitPart(str, n) ==
    LET stop == IF ColonsIn(str) = {} THEN Len(str) + 1
                ELSE CHOOSE i \in ColonsIn(str) : \A j \in ColonsIn(str) : i <= j
    IN  IF n = 1 THEN SubSeq(str, 1, stop - 1)
        ELSE IF stop > Len(str) THEN <<>>
        ELSE SplitPart(SubSeq(str, stop + 1, Len(str)), n - 1)

\* str::INTEGER, of a string of digits
RECURSIVE ToInteger(_)
ToInteger(str) ==
    IF str = <<>> THEN 0
    ELSE 10 * ToInteger(SubSeq(str, 1, Len(str) - 1)) + str[Len(str)]

\* a < b as VARCHARs: character by character, a proper prefix first.
StringLess(a, b) ==
    \E k \in 1..(Len(b)) :
        /\ \A i \in 1..(k - 1) : i <= Len(a) /\ a[i] = b[i]
        /\ \/ k = Len(a) + 1
           \/ k <= Len(a) /\ a[k] < b[k]

\* MIN(...) over VARCHARs
MinString(S) == CHOOSE a \in S : \A b \in S : a = b \/ StringLess(a, b)

\* The integers of a set in ascending order (ORDER BY on a grouping key).
RECURSIVE Ascending(_)
Ascending(S) ==
    IF S = {} THEN <<>>
    ELSE LET least == CHOOSE x \in S : \A y \in S : x <= y
         IN  <<least>> \o Ascending(S \ {least})

---------------------------------------------------------------------------
(* The rows of the parquet files: trips of two lines, of weekday, Friday,  *)
(* Saturday and weekend services, at two stops, of two effective dates;    *)
(* trips with two visits, one trip in both files, arrivals after midnight. *)

Days(mo, tu, we, th, fr, sa, su) ==
    [monday |-> mo, tuesday |-> tu, wednesday |-> we, thursday |-> th,
     friday |-> fr, saturday |-> sa, sunday |-> su]

Weekdays == Days(1, 1, 1, 1, 1, 0, 0)
FridayOnly == Days(0, 0, 0, 0, 1, 0, 0)
SaturdayOnly == Days(0, 0, 0, 0, 0, 1, 0)
Weekend == Days(0, 0, 0, 0, 0, 1, 1)

ScheduleRow(name, color, trip, days, from, stop, arrival) ==
    days @@ [route_long_name |-> name, route_color |-> color, trip_id |-> trip,
             start_date |-> from, stop_id |-> stop, arrival_time |-> arrival]

ScheduleRows ==
    <<ScheduleRow("Red Line", "C60C30", "T1", Weekdays, 20260101, 30000, TimeString(8, 0, 0)),
      ScheduleRow("Red Line", "C60C30", "T2", Weekdays, 20260101, 30000, TimeString(8, 10, 0)),
      ScheduleRow("Red Line", "C60C30", "T3", Weekdays, 20260101, 30000, TimeString(8, 25, 0)),
      ScheduleRow("Red Line", "C60C30", "T5", SaturdayOnly, 20260101, 30000, TimeString(25, 10, 0)),
      ScheduleRow("Red Line", "C60C30", "T4", FridayOnly, 20260101, 30000, TimeString(8, 12, 40)),
      ScheduleRow("Red Line", "C60C30", "T5", SaturdayOnly, 20260101, 30001, TimeString(24, 50, 0)),
      ScheduleRow("Red Line", "C60C30", "T6", SaturdayOnly, 20260106, 30000, TimeString(23, 50, 0)),
      ScheduleRow("Red Line", "C60C30", "T1", Weekdays, 20260106, 30000, TimeString(8, 0, 0)),
      ScheduleRow("Blue Line", "00A1DE", "T7", Weekdays, 20260101, 30001, TimeString(8, 0, 0)),
      ScheduleRow("Red Line", "C60C30", "T8", Weekend, 20260101, 30001, TimeString(9, 0, 0)),
      ScheduleRow("Red Line", "C60C30", "T2", Weekdays, 20260101, 30001, TimeString(9, 15, 0))>>

\* read_parquet over the files: at most n different rows, up to row order.
ScheduleTables(n) ==
    LET Idx == UNION {[1..k -> DOMAIN ScheduleRows] : k \in 0..n}
        Increasing(t) == \A i \in 1..(Len(t) - 1) : t[i] < t[i + 1]
    IN  {[i \in DOMAIN t |-> ScheduleRows[t[i]]] : t \in {u \in Idx : Increasing(u)}}

---------------------------------------------------------------------------
(* The selection and the filtered relation *)

SCHEDULE_TYPES == {"Weekday", "Saturday", "Sunday"}

\* sorted(historical_schedule_data["route_long_name"].unique()), as the set of
\* options the selectbox offers.
TrainLines(data) == {data[i].route_long_name : i \in DOMAIN data}

\* Mutant: Friday left out of the weekday sum.
RunsCalculationNoFriday(row, type) ==
    CASE type = "Weekday" -> row.monday + row.tuesday + row.wednesday + row.thursday
      [] type = "Saturday" -> row.saturday
      [] type = "Sunday" -> row.sunday
      [] OTHER -> 0

\* CASE WHEN ? = 'Weekday' THEN ... END AS runs_calculation
RunsCalculation(row, type) ==
    CASE type = "Weekday" ->
            row.monday + row.tuesday + row.wednesday + row.thursday + row.friday
      [] type = "Saturday" -> row.saturday
      [] type = "Sunday" -> row.sunday
      [] OTHER -> 0

\* Mutant: the relation filtered by line alone.
FilteredByLineOnly(data, type, name) ==
    LET withRuns == [i \in DOMAIN data |->
                        data[i] @@ [runs_calculation |-> RunsCalculation(data[i], type)]]
    IN  SelectSeq(withRuns, LAMBDA r : r.route_long_name = name)

\* The filtered_schedules query: SELECT *, runs_calculation ... WHERE
\* runs_calculation > 0 AND route_long_name = ?
FilteredSchedules(data, type, name) ==
    LET withRuns == [i \in DOMAIN data |->
                        data[i] @@ [runs_calculation |-> RunsCalculation(data[i], type)]]
    IN  SelectSeq(withRuns, LAMBDA r : r.runs_calculation > 0 /\ r.route_long_name = name)

---------------------------------------------------------------------------
(* Query A: trains_per_hour *)

\* Mutant: the last arrival of the trip instead of the first.
LastArrival(fs, trip) ==
    LET times == {fs[i].arrival_time : i \in {j \in DOMAIN fs : fs[j].trip_id = trip}}
    IN  CHOOSE a \in times : \A b \in times : a = b \/ StringLess(b, a)

\* MIN(arrival_time) ... GROUP BY trip_id
FirstArrival(fs, trip) ==
    MinString({fs[i].arrival_time : i \in {j \in DOMAIN fs : fs[j].trip_id = trip}})

\* Mutant: the CTE without GROUP BY trip_id, one row per stop visit.
TripStartsPerVisit(fs) ==
    {[trip_id |-> fs[i].trip_id, first_arrival |-> fs[i].arrival_time] : i \in DOMAIN fs}

\* The CTE trip_starts: one row per trip_id.
TripStarts(fs) ==
    {[trip_id |-> t, first_arrival |-> FirstArrival(fs, t)] :
        t \in {fs[i].trip_id : i \in DOMAIN fs}}

\* split_part(first_arrival, ':', 1)::INTEGER
StartHour(start) == ToInteger(SplitPart(start.first_arrival, 1))

\* SELECT hour, COUNT(trip_id) ... GROUP BY 1 ORDER BY 1
TrainsPerHour(fs) ==
    LET starts == TripStarts(fs)
        hours == Ascending({StartHour(t) : t \in starts})
    IN  [k \in DOMAIN hours |->
            [hour |-> hours[k],
             new_trips_started |-> Cardinality({t \in starts : StartHour(t) = hours[k]})]]

---------------------------------------------------------------------------
(* Query B: average_headway.  A DOUBLE that is a quotient of integers is   *)
(* the fraction [num, den] with den > 0; NULL is the empty sequence and a  *)
(* value v that may be NULL is <<v>>.                                      *)

NULL == <<>>

Fraction(n, d) == [num |-> n, den |-> d]

\* The CTE split_data: h * 3600 + m * 60 + s of every row.
SplitData(fs) ==
    [i \in DOMAIN fs |->
        [stop_id |-> fs[i].stop_id,
         arrival_seconds |->
             ToInteger(SplitPart(fs[i].arrival_time, 1)) * 3600
             + ToInteger(SplitPart(fs[i].arrival_time, 2)) * 60
             + ToInteger(SplitPart(fs[i].arrival_time, 3))]]

\* Row j comes before row i in the window of i: PARTITION BY stop_id ORDER BY
\* arrival_seconds.  Rows of equal arrival_seconds are peers, and whichever
\* order the engine gives them the (arrival_seconds, prev_seconds) pairs of
\* the partition are the same, so they are taken in row order.
Precedes(split, j, i) ==
    /\ split[j].stop_id = split[i].stop_id
    /\ \/ split[j].arrival_seconds < split[i].arrival_seconds
       \/ split[j].arrival_seconds = split[i].arrival_seconds /\ j < i

\* Mutant: the window is not partitioned by stop_id.
LaggedDataAcrossStops(split) ==
    [i \in DOMAIN split |->
        LET Before(j, k) == \/ split[j].arrival_seconds < split[k].arrival_seconds
                            \/ split[j].arrival_seconds = split[k].arrival_seconds /\ j < k
            before == {j \in DOMAIN split : Before(j, i)}
        IN  [stop_id |-> split[i].stop_id,
             arrival_seconds |-> split[i].arrival_seconds,
             prev_seconds |->
                 IF before = {} THEN NULL
                 ELSE LET last == CHOOSE j \in before : \A k \in before : ~Before(j, k)
                      IN  <<split[last].arrival_seconds>>]]

\* Mutant: the first row of a partition lags itself instead of NULL.
LaggedDataFirstLagsItself(split) ==
    [i \in DOMAIN split |->
        LET before == {j \in DOMAIN split : Precedes(split, j, i)}
        IN  [stop_id |-> split[i].stop_id,
             arrival_seconds |-> split[i].arrival_seconds,
             prev_seconds |->
                 IF before = {} THEN <<split[i].arrival_seconds>>
                 ELSE LET last == CHOOSE j \in before :
                                     \A k \in before : ~Precedes(split, j, k)
                      IN  <<split[last].arrival_seconds>>]]

\* The CTE lagged_data: LAG(arrival_seconds) OVER (PARTITION BY stop_id ORDER
\* BY arrival_seconds) AS prev_seconds.
LaggedData(split) ==
    [i \in DOMAIN split |->
        LET before == {j \in DOMAIN split : Precedes(split, j, i)}
        IN  [stop_id |-> split[i].stop_id,
             arrival_seconds |-> split[i].arrival_seconds,
             prev_seconds |->
                 IF before = {} THEN NULL
                 ELSE LET last == CHOOSE j \in before :
                                     \A k \in before : ~Precedes(split, j, k)
                      IN  <<split[last].arrival_seconds>>]]

\* floor((arrival_seconds / 3600) % 24), arrival_seconds >= 0
HourBucket(arrival_seconds) == (arrival_seconds \div 3600) % 24

\* The CTE headway_calc: the rows with a previous arrival.
HeadwayCalc(lagged) ==
    LET sampled == SelectSeq(lagged, LAMBDA r : r.prev_seconds # NULL)
    IN  [k \in DOMAIN sampled |->
            [hour |-> HourBucket(sampled[k].arrival_seconds),
             headway_minutes |->
                 Fraction(sampled[k].arrival_seconds - sampled[k].prev_seconds[1], 60)]]

\* round(x) of a DOUBLE x >= 0: to the nearest integer, halves away from zero.
Round(x) == (2 * x.num + x.den) \div (2 * x.den)

\* x::INTEGER of a DOUBLE x >= 0: to the nearest integer, halves to the even
\* one.
CastInteger(x) ==
    LET q == x.num \div x.den
        r == x.num % x.den
    IN  IF 2 * r < x.den THEN q
        ELSE IF 2 * r > x.den THEN q + 1
        ELSE IF q % 2 = 0 THEN q ELSE q + 1

\* The decimal digits of n >= 0.
RECURSIVE Digits(_)
Digits(n) == IF n < 10 THEN <<n>> ELSE Digits(n \div 10) \o <<n % 10>>

\* Mutant: format('{}:{}', a, b), no zero padding.
FormatUnpadded(a, b) == Digits(a) \o <<Colon>> \o Digits(b)

\* format('{:02d}:{:02d}', a, b)
FormatMmss(a, b) ==
    LET Pad(n) == IF n < 10 THEN <<0>> \o Digits(n) ELSE Digits(n)
    IN  Pad(a) \o <<Colon>> \o Pad(b)

RECURSIVE SumOfGaps(_)
SumOfGaps(samples) ==
    IF samples = <<>> THEN 0
    ELSE samples[1].headway_minutes.num + SumOfGaps(Tail(samples))

\* AVG(headway_minutes) of samples that all are some number of seconds / 60.
Avg(samples) == Fraction(SumOfGaps(samples), 60 * Len(samples))

\* The final SELECT: ... GROUP BY hour ORDER BY hour
AverageHeadway(fs) ==
    LET calc == HeadwayCalc(LaggedData(SplitData(fs)))
        hours == Ascending({calc[k].hour : k \in DOMAIN calc})
    IN  [h \in DOMAIN hours |->
            LET avg == Avg(SelectSeq(calc, LAMBDA c : c.hour = hours[h]))
                seconds == Round(Fraction(avg.num * 60, avg.den))
            IN  [hour |-> hours[h],
                 avg_headway |-> avg,
                 avg_headway_mmss |->
                     FormatMmss(CastInteger(Fraction(seconds, 60)), seconds % 60)]]

---------------------------------------------------------------------------
(* Query C: total_trains *)

\* strptime(CAST(START_DATE AS VARCHAR), '%Y%m%d') of an eight-digit date
Strptime(start_date) ==
    LET str == Digits(start_date)
    IN  [year |-> ToInteger(SubSeq(str, 1, 4)),
         month |-> ToInteger(SubSeq(str, 5, 6)),
         day |-> ToInteger(SubSeq(str, 7, 8))]

\* Mutant: COUNT(TRIP_ID) instead of COUNT(DISTINCT TRIP_ID).
ScheduledRunsPerRow(fs, group) ==
    Cardinality({i \in DOMAIN fs :
        <<fs[i].route_long_name, fs[i].start_date, fs[i].route_color>> = group})

\* CAST(COUNT(DISTINCT TRIP_ID) AS INTEGER) of a group
ScheduledRuns(fs, group) ==
    Cardinality({fs[i].trip_id : i \in {j \in DOMAIN fs :
        <<fs[j].route_long_name, fs[j].start_date, fs[j].route_color>> = group}})

\* Mutant: the aggregate without GROUP BY, one row whatever the input.
TotalTrainsUngrouped(fs) ==
    {[LINE |-> IF fs = <<>> THEN "NULL" ELSE fs[1].route_long_name,
      EFFECTIVE_DATE |-> IF fs = <<>> THEN NULL ELSE Strptime(fs[1].start_date),
      HEX_CODE |-> IF fs = <<>> THEN "NULL" ELSE "#" \o fs[1].route_color,
      SCHEDULED_RUNS |-> Cardinality({fs[i].trip_id : i \in DOMAIN fs})]}

\* The rows of the result: GROUP BY ROUTE_LONG_NAME, START_DATE, ROUTE_COLOR
TotalTrainsRows(fs) ==
    {[LINE |-> g[1],
      EFFECTIVE_DATE |-> Strptime(g[2]),
      HEX_CODE |-> "#" \o g[3],
      SCHEDULED_RUNS |-> ScheduledRuns(fs, g)] :
        g \in {<<fs[i].route_long_name, fs[i].start_date, fs[i].route_color>> :
                  i \in DOMAIN fs}}

\* ORDER BY SCHEDULED_RUNS DESC: every order of the rows that the clause
\* allows; the order of rows of equal SCHEDULED_RUNS is the engine's.
TotalTrains(fs) ==
    LET rows == TotalTrainsRows(fs)
        n == Cardinality(rows)
    IN  {t \in [1..n -> rows] :
            /\ \A r \in rows : \E i \in 1..n : t[i] = r
            /\ \A i \in 1..(n - 1) : t[i].SCHEDULED_RUNS >= t[i + 1].SCHEDULED_RUNS}

---------------------------------------------------------------------------
(* One run of the page script *)

\* The page is opened; the Lambda is not running and has stored nothing.
InitPage ==
    /\ gtfs_data = [calendar |-> <<>>, routes |-> <<>>, stops |-> <<>>,
                    stop_times |-> <<>>, trips |-> <<>>]
    /\ store = NoObjects
    /\ pc = "idle"
    /\ fileIdx = 1
    /\ dataframes = NoDataframes
    /\ processed = NotProcessed
    /\ error = "none"
    /\ getCalls = <<>>
    /\ putCalls = <<>>
    /\ runs = 0
    /\ entryStore = NoObjects
    /\ log = <<>>
    /\ historical_schedule_data = <<>>
    /\ page = "opened"
    /\ current_effective_date = "None"
    /\ line = "None"
    /\ schedule_type = "None"
    /\ df_filtered_schedules = <<>>
    /\ df_trains_per_hour = <<>>
    /\ df_average_headway = <<>>
    /\ df_aggregate_scheduled_trains = <<>>
    /\ FetchAbsent
    /\ TrainAbsent

\* str(historical_schedule_data["start_date"].max()); the maximum of no
\* values is nan.
CurrentEffectiveDate(data) ==
    IF data = <<>> THEN "nan"
    ELSE LET dates == {data[i].start_date : i \in DOMAIN data}
         IN  ToString(CHOOSE d \in dates : \A e \in dates : e <= d)

\* load_s3_parquet_data and the current effective date.  strptime of "nan"
\* with "%Y%m%d" raises ValueError.
LoadScheduleData ==
    /\ page = "opened"
    /\ \E data \in ScheduleTables(MaxScheduleRows) :
          /\ historical_schedule_data' = data
          /\ current_effective_date' = CurrentEffectiveDate(data)
          /\ page' = IF CurrentEffectiveDate(data) = "nan" THEN "ValueError"
                     ELSE "select"
    /\ UNCHANGED <<line, schedule_type, df_filtered_schedules, df_trains_per_hour,
                   df_average_headway, df_aggregate_scheduled_trains>>
    /\ UNCHANGED <<vars, fetchVars, trainVars>>

\* The two selectboxes.
SelectLineAndSchedule ==
    /\ page = "select"
    /\ \E name \in TrainLines(historical_schedule_data), type \in SCHEDULE_TYPES :
          /\ line' = name
          /\ schedule_type' = type
    /\ page' = "filtered_schedules"
    /\ UNCHANGED <<historical_schedule_data, current_effective_date,
                   df_filtered_schedules, df_trains_per_hour, df_average_headway,
                   df_aggregate_scheduled_trains>>
    /\ UNCHANGED <<vars, fetchVars, trainVars>>

\* df_filtered_schedules = duckdb.query(filtered_schedules, ...).df(), and its
\* registration as the relation the three queries read.
QueryFilteredSchedules ==
    /\ page = "filtered_schedules"
    /\ df_filtered_schedules' =
           FilteredSchedules(historical_schedule_data, schedule_type, line)
    /\ page' = "trains_per_hour"
    /\ UNCHANGED <<historical_schedule_data, current_effective_date, line,
                   schedule_type, df_trains_per_hour, df_average_headway,
                   df_aggregate_scheduled_trains>>
    /\ UNCHANGED <<vars, fetchVars, trainVars>>

QueryTrainsPerHour ==
    /\ page = "trains_per_hour"
    /\ df_trains_per_hour' = TrainsPerHour(df_filtered_schedules)
    /\ page' = "average_headway"
    /\ UNCHANGED <<historical_schedule_data, current_effective_date, line,
                   schedule_type, df_filtered_schedules, df_average_headway,
                   df_aggregate_scheduled_trains>>
    /\ UNCHANGED <<vars, fetchVars, trainVars>>

QueryAverageHeadway ==
    /\ page = "average_headway"
    /\ df_average_headway' = AverageHeadway(df_filtered_schedules)
    /\ page' = "total_trains"
    /\ UNCHANGED <<historical_schedule_data, current_effective_date, line,
                   schedule_type, df_filtered_schedules, df_trains_per_hour,
                   df_aggregate_scheduled_trains>>
    /\ UNCHANGED <<vars, fetchVars, trainVars>>

QueryTotalTrains ==
    /\ page = "total_trains"
    /\ df_aggregate_scheduled_trains' \in TotalTrains(df_filtered_schedules)
    /\ page' = "charts"
    /\ UNCHANGED <<historical_schedule_data, current_effective_date, line,
                   schedule_type, df_filtered_schedules, df_trains_per_hour,
                   df_average_headway>>
    /\ UNCHANGED <<vars, fetchVars, trainVars>>

\* The three charts and the tabs are built from the dataframes.
RenderCharts ==
    /\ page = "charts"
    /\ page' = "rendered"
    /\ UNCHANGED <<historical_schedule_data, current_effective_date, line,
                   schedule_type, df_filtered_schedules, df_trains_per_hour,
                   df_average_headway, df_aggregate_scheduled_trains>>
    /\ UNCHANGED <<vars, fetchVars, trainVars>>

NextPage ==
    \/ LoadScheduleData
    \/ SelectLineAndSchedule
    \/ QueryFilteredSchedules
    \/ QueryTrainsPerHour
    \/ QueryAverageHeadway
    \/ QueryTotalTrains
    \/ RenderCharts

SpecPage == InitPage /\ [][NextPage]_allVars

---------------------------------------------------------------------------
(* Properties of the filtered relation *)

Filtered == page \in {"trains_per_hour", "average_headway", "total_trains",
                      "charts", "rendered"}
TrainsPerHourDone == page \in {"average_headway", "total_trains", "charts", "rendered"}
AverageHeadwayDone == page \in {"total_trains", "charts", "rendered"}
TotalTrainsDone == page \in {"charts", "rendered"}

\* The service of the row runs on a day of the schedule type.
RunsOn(row, type) ==
    \/ type = "Weekday" /\ \E d \in {"monday", "tuesday", "wednesday", "thursday",
                                       "friday"} : row[d] = 1
    \/ type = "Saturday" /\ row.saturday = 1
    \/ type = "Sunday" /\ row.sunday = 1

Selected(row) == row.route_long_name = line /\ RunsOn(row, schedule_type)

\* A row of the filtered relation without the column the filter added.
ScheduleColumns(row) == [c \in DOMAIN row \ {"runs_calculation"} |-> row[c]]

\* C11: a schedule row is in the filtered relation iff its route_long_name is
\* the selected line and its service runs on a day of the selected schedule
\* type (for Weekday: any of monday..friday is 1); the other rows are used by
\* no query: each result is what the query gives over the selected rows alone.
C11_FilterKeepsLineAndScheduleType ==
    LET selected == SelectSeq(historical_schedule_data, Selected)
        kept == FilteredSchedules(selected, schedule_type, line)
    IN  /\ Filtered =>
              /\ \A r \in Range(historical_schedule_data) :
                     (r \in {ScheduleColumns(f) : f \in Range(df_filtered_schedules)})
                         <=> Selected(r)
              /\ \A f \in Range(df_filtered_schedules) :
                     ScheduleColumns(f) \in Range(historical_schedule_data)
        /\ TrainsPerHourDone => df_trains_per_hour = TrainsPerHour(kept)
        /\ AverageHeadwayDone => df_average_headway = AverageHeadway(kept)
        /\ TotalTrainsDone => df_aggregate_scheduled_trains \in TotalTrains(kept)

\* A Friday-only service is kept under Weekday while a row of another line and
\* a row of a Saturday service are left out.
C11_Witness ==
    /\ page = "rendered"
    /\ schedule_type = "Weekday"
    /\ \E r \in Range(df_filtered_schedules) : r.friday = 1 /\ r.monday = 0
    /\ \E r \in Range(historical_schedule_data) : r.route_long_name # line
    /\ \E r \in Range(historical_schedule_data) :
           r.route_long_name = line /\ ~RunsOn(r, schedule_type)

---------------------------------------------------------------------------
(* Properties of Query A *)

TripIds(fs) == {fs[i].trip_id : i \in DOMAIN fs}

RECURSIVE SumOfTrips(_)
SumOfTrips(df) ==
    IF df = <<>> THEN 0 ELSE df[1].new_trips_started + SumOfTrips(Tail(df))

\* C12: the trip counts of Query A over all hours add up to the number of
\* distinct trip_id values of the filtered relation, also when a trip_id has
\* several stop visits or comes from several effective-date files.
C12_TripCountsSumToDistinctTrips ==
    TrainsPerHourDone =>
        SumOfTrips(df_trains_per_hour) = Cardinality(TripIds(df_filtered_schedules))

\* One trip_id in two effective-date files, another with visits in two hours.
C12_Witness ==
    /\ page = "rendered"
    /\ \E i, j \in DOMAIN df_filtered_schedules :
           /\ df_filtered_schedules[i].trip_id = df_filtered_schedules[j].trip_id
           /\ df_filtered_schedules[i].start_date # df_filtered_schedules[j].start_date
    /\ \E i, j \in DOMAIN df_filtered_schedules :
           /\ df_filtered_schedules[i].trip_id = df_filtered_schedules[j].trip_id
           /\ SplitPart(df_filtered_schedules[i].arrival_time, 1)
                  # SplitPart(df_filtered_schedules[j].arrival_time, 1)
    /\ SumOfTrips(df_trains_per_hour) = 2


\* The time of day as seconds elapsed since the start of the service day.
Elapsed(arrival_time) ==
    ToInteger(SplitPart(arrival_time, 1)) * 3600
    + ToInteger(SplitPart(arrival_time, 2)) * 60
    + ToInteger(SplitPart(arrival_time, 3))

\* The hour written before the first ':' of the arrival_time of the trip's
\* first stop visit, the one of least elapsed time.
FirstVisitHour(fs, trip) ==
    LET visits == {i \in DOMAIN fs : fs[i].trip_id = trip}
        first == CHOOSE i \in visits : \A j \in visits :
                     Elapsed(fs[i].arrival_time) <= Elapsed(fs[j].arrival_time)
    IN  ToInteger(SplitPart(fs[first].arrival_time, 1))

\* C13: Query A counts each trip under the hour written in the arrival_time of
\* its first stop visit, keeps hours above 23 as they are, and lists the
\* (hour, count) rows by ascending hour.
C13_TripsCountedAtFirstVisitHour ==
    TrainsPerHourDone =>
        LET fs == df_filtered_schedules
            df == df_trains_per_hour
        IN  /\ \A t \in TripIds(fs) :
                   \E k \in DOMAIN df : df[k].hour = FirstVisitHour(fs, t)
            /\ \A k \in DOMAIN df :
                   /\ df[k].new_trips_started > 0
                   /\ df[k].new_trips_started =
                          Cardinality({t \in TripIds(fs) : FirstVisitHour(fs, t) = df[k].hour})
            /\ \A k \in 1..(Len(df) - 1) : df[k].hour < df[k + 1].hour

\* A trip whose later row is its first visit, at an hour above 23, and a trip
\* of another hour.
C13_Witness ==
    /\ page = "rendered"
    /\ Len(df_trains_per_hour) = 2
    /\ df_trains_per_hour[2].hour > 23
    /\ \E i, j \in DOMAIN df_filtered_schedules :
           /\ i < j
           /\ df_filtered_schedules[i].trip_id = df_filtered_schedules[j].trip_id
           /\ Elapsed(df_filtered_schedules[j].arrival_time)
                  < Elapsed(df_filtered_schedules[i].arrival_time)
           /\ SplitPart(df_filtered_schedules[i].arrival_time, 1)
                  # SplitPart(df_filtered_schedules[j].arrival_time, 1)

---------------------------------------------------------------------------
(* Properties of Query B *)

\* Row j is an arrival at the stop of row i that is earlier in elapsed
\* seconds (of two at the same second, the earlier row).
ArrivesBefore(fs, j, i) ==
    /\ fs[j].stop_id = fs[i].stop_id
    /\ \/ Elapsed(fs[j].arrival_time) < Elapsed(fs[i].arrival_time)
       \/ Elapsed(fs[j].arrival_time) = Elapsed(fs[i].arrival_time) /\ j < i

\* The rows with a preceding arrival at their stop: one headway sample each.
Samples(fs) == {i \in DOMAIN fs : \E j \in DOMAIN fs : ArrivesBefore(fs, j, i)}

\* Seconds from the immediately preceding arrival at the stop to row i.
GapSeconds(fs, i) ==
    LET earlier == {Elapsed(fs[j].arrival_time) :
                       j \in {k \in DOMAIN fs : ArrivesBefore(fs, k, i)}}
    IN  Elapsed(fs[i].arrival_time) - (CHOOSE e \in earlier : \A f \in earlier : f <= e)

\* floor((arrival_seconds / 3600) mod 24) of the later arrival
SampleHour(fs, i) == (Elapsed(fs[i].arrival_time) \div 3600) % 24

RECURSIVE SumOfGapSeconds(_, _)
SumOfGapSeconds(fs, S) ==
    IF S = {} THEN 0
    ELSE LET i == CHOOSE x \in S : TRUE
         IN  GapSeconds(fs, i) + SumOfGapSeconds(fs, S \ {i})

\* x = n / d as fractions
FractionEquals(x, n, d) == x.num * d = n * x.den

\* C14: every headway sample is the non-negative gap from the immediately
\* preceding arrival at the same stop_id, in elapsed seconds without day
\* wrap, divided by 60, in the hour bucket floor((arrival_seconds/3600) mod
\* 24) of the later arrival; Query B outputs one row per bucket that has a
\* sample, its hour in 0..23, its average the mean of the bucket's samples,
\* by ascending hour.
C14_HeadwayIsGapToPrecedingArrival ==
    AverageHeadwayDone =>
        LET fs == df_filtered_schedules
            df == df_average_headway
            InBucket(h) == {i \in Samples(fs) : SampleHour(fs, i) = h}
        IN  /\ \A i \in Samples(fs) :
                   /\ GapSeconds(fs, i) >= 0
                   /\ \E k \in DOMAIN df : df[k].hour = SampleHour(fs, i)
            /\ \A k \in DOMAIN df :
                   /\ df[k].hour \in 0..23
                   /\ InBucket(df[k].hour) # {}
                   /\ FractionEquals(df[k].avg_headway,
                                     SumOfGapSeconds(fs, InBucket(df[k].hour)),
                                     60 * Cardinality(InBucket(df[k].hour)))
            /\ \A k \in 1..(Len(df) - 1) : df[k].hour < df[k + 1].hour

\* Arrivals at two stops, one stop with an arrival after 24:00:00 whose sample
\* falls in a bucket below the hour written in its arrival_time, and samples
\* in two buckets.
C14_Witness ==
    /\ page = "rendered"
    /\ Len(df_average_headway) = 2
    /\ \E i \in Samples(df_filtered_schedules) :
           /\ Elapsed(df_filtered_schedules[i].arrival_time) >= 24 * 3600
           /\ GapSeconds(df_filtered_schedules, i) > 0
    /\ \E i, j \in DOMAIN df_filtered_schedules :
           df_filtered_schedules[i].stop_id # df_filtered_schedules[j].stop_id


StopIds(fs) == {fs[i].stop_id : i \in DOMAIN fs}

\* The rows of headway_calc over the filtered relation.
HeadwaySamples == HeadwayCalc(LaggedData(SplitData(df_filtered_schedules)))

\* C15: the first arrival of each stop gives no headway sample: the samples
\* number the filtered rows less the distinct stop_id values, and when every
\* stop has one arrival there is no sample and Query B has no row.
C15_FirstArrivalGivesNoSample ==
    LET fs == df_filtered_schedules
    IN  /\ Filtered => Len(HeadwaySamples) = Len(fs) - Cardinality(StopIds(fs))
        /\ (AverageHeadwayDone /\ Len(fs) = Cardinality(StopIds(fs))) =>
               df_average_headway = <<>>

\* A stop with one arrival beside a stop with three.
C15_Witness ==
    /\ page = "rendered"
    /\ Len(df_filtered_schedules) = 4
    /\ Cardinality(StopIds(df_filtered_schedules)) = 2
    /\ \E i \in DOMAIN df_filtered_schedules :
           \A j \in DOMAIN df_filtered_schedules :
               df_filtered_schedules[j].stop_id = df_filtered_schedules[i].stop_id
                   => j = i
    /\ Len(HeadwaySamples) = 2


\* The filtered relation is one stop with two arrivals 10 minutes apart in
\* the same hour bucket.
TwoArrivalsTenMinutesApart ==
    LET fs == df_filtered_schedules
    IN  /\ Len(fs) = 2
        /\ fs[1].stop_id = fs[2].stop_id
        /\ Elapsed(fs[2].arrival_time) - Elapsed(fs[1].arrival_time) \in {600, -600}
        /\ SampleHour(fs, 1) = SampleHour(fs, 2)

\* C16 as stated: for one stop with two arrivals 10 minutes apart in one hour
\* bucket, Query B gives that bucket the average 10.0 and the string "00:10".
C16_TenMinutesIsZeroZeroTen ==
    (AverageHeadwayDone /\ TwoArrivalsTenMinutesApart) =>
        /\ Len(df_average_headway) = 1
        /\ df_average_headway[1].hour = SampleHour(df_filtered_schedules, 1)
        /\ FractionEquals(df_average_headway[1].avg_headway, 10, 1)
        /\ df_average_headway[1].avg_headway_mmss = <<0, 0, Colon, 1, 0>>

\* C16: for one stop with two arrivals 10 minutes apart in one hour bucket,
\* Query B gives that bucket the average 10.0 and the string "10:00", minutes
\* before seconds.
C16_TenMinutesIsTenZeroZero ==
    (AverageHeadwayDone /\ TwoArrivalsTenMinutesApart) =>
        /\ Len(df_average_headway) = 1
        /\ df_average_headway[1].hour = SampleHour(df_filtered_schedules, 1)
        /\ FractionEquals(df_average_headway[1].avg_headway, 10, 1)
        /\ df_average_headway[1].avg_headway_mmss = <<1, 0, Colon, 0, 0>>

C16_Witness ==
    /\ page = "rendered"
    /\ TwoArrivalsTenMinutesApart
    /\ Len(df_average_headway) = 1


\* round(mean headway in minutes * 60) of the bucket, halves away from zero.
RoundedSeconds(fs, bucket) ==
    LET sum == SumOfGapSeconds(fs, bucket)
        n == Cardinality(bucket)
    IN  (2 * sum + n) \div (2 * n)

\* C17 as stated: in every hour bucket avg_headway_mmss is MM:SS with
\* S = round(mean * 60), MM = floor(S / 60), never rounded up, and
\* SS = S mod 60.
C17_MinutesAreFloored ==
    AverageHeadwayDone =>
        LET fs == df_filtered_schedules
            df == df_average_headway
        IN  \A k \in DOMAIN df :
                LET S == RoundedSeconds(fs, {i \in Samples(fs) :
                                                 SampleHour(fs, i) = df[k].hour})
                IN  df[k].avg_headway_mmss = FormatMmss(S \div 60, S % 60)

---------------------------------------------------------------------------
(* Properties of Query C *)

\* The rows of the selected line, of every schedule type.
RowsOfLine ==
    SelectSeq(historical_schedule_data, LAMBDA r : r.route_long_name = line)

\* C18 as stated: Query C is not filtered by schedule type: its output is that
\* of the rows of the selected line whatever their service days, the same for
\* Weekday, Saturday and Sunday.
C18_QueryCIgnoresScheduleType ==
    TotalTrainsDone =>
        /\ df_aggregate_scheduled_trains \in TotalTrains(RowsOfLine)
        /\ \A type \in SCHEDULE_TYPES :
               df_aggregate_scheduled_trains
                   \in TotalTrains(FilteredSchedules(historical_schedule_data, type, line))

\* C18: Query C reads the relation filtered by line and by schedule type: a
\* row of its output counts the distinct trips of its line and effective
\* date whose service runs on the selected schedule type, and a group without
\* such a trip has no row.
C18_QueryCCountsSelectedScheduleType ==
    TotalTrainsDone =>
        LET data == historical_schedule_data
            df == df_aggregate_scheduled_trains
            Counted(row) ==
                {i \in DOMAIN data :
                    /\ data[i].route_long_name = row.LINE
                    /\ Strptime(data[i].start_date) = row.EFFECTIVE_DATE
                    /\ RunsOn(data[i], schedule_type)}
        IN  /\ \A k \in DOMAIN df :
                   /\ df[k].LINE = line
                   /\ df[k].SCHEDULED_RUNS > 0
                   /\ df[k].SCHEDULED_RUNS
                          = Cardinality({data[i].trip_id : i \in Counted(df[k])})
            /\ \A i \in DOMAIN data :
                   Selected(data[i]) => \E k \in DOMAIN df : i \in Counted(df[k])

\* The line has a trip of a service that does not run on the selected type,
\* the output leaves it out and another schedule type gives another output.
C18_Witness ==
    /\ page = "rendered"
    /\ df_aggregate_scheduled_trains # <<>>
    /\ \E r \in Range(RowsOfLine) :
           /\ ~RunsOn(r, schedule_type)
           /\ r.trip_id \notin TripIds(df_filtered_schedules)
    /\ df_aggregate_scheduled_trains \notin TotalTrains(RowsOfLine)
    /\ \E type \in SCHEDULE_TYPES :
           df_aggregate_scheduled_trains
               \notin TotalTrains(FilteredSchedules(historical_schedule_data, type, line))


\* The (route_long_name, start_date, route_color) groups of a relation.
Groups(fs) ==
    {<<fs[i].route_long_name, fs[i].start_date, fs[i].route_color>> : i \in DOMAIN fs}

\* The date an eight-digit start_date writes.
DateOf(start_date) ==
    [year |-> start_date \div 10000,
     month |-> (start_date \div 100) % 100,
     day |-> start_date % 100]

\* C19: Query C outputs one row for each (route_long_name, start_date,
\* route_color) group of its input and no other; the row's count is the
\* number of distinct trip_id values of the group, its hex code is '#' and
\* the route_color, and the rows are in non-increasing order of count.
C19_OneRowPerGroupByCountDescending ==
    TotalTrainsDone =>
        LET fs == df_filtered_schedules
            df == df_aggregate_scheduled_trains
            RowOf(g) == [LINE |-> g[1],
                         EFFECTIVE_DATE |-> DateOf(g[2]),
                         HEX_CODE |-> "#" \o g[3],
                         SCHEDULED_RUNS |->
                             Cardinality({fs[i].trip_id : i \in {j \in DOMAIN fs :
                                 /\ fs[j].route_long_name = g[1]
                                 /\ fs[j].start_date = g[2]
                                 /\ fs[j].route_color = g[3]}})]
        IN  /\ Len(df) = Cardinality(Groups(fs))
            /\ \A g \in Groups(fs) : \E k \in DOMAIN df : df[k] = RowOf(g)
            /\ \A k \in 1..(Len(df) - 1) :
                   df[k].SCHEDULED_RUNS >= df[k + 1].SCHEDULED_RUNS

\* Two effective dates with different counts, and a trip with two rows in its
\* group.
C19_Witness ==
    /\ page = "rendered"
    /\ Len(df_aggregate_scheduled_trains) = 2
    /\ df_aggregate_scheduled_trains[1].SCHEDULED_RUNS
           > df_aggregate_scheduled_trains[2].SCHEDULED_RUNS
    /\ \E i, j \in DOMAIN df_filtered_schedules :
           /\ i # j
           /\ df_filtered_schedules[i].trip_id = df_filtered_schedules[j].trip_id
           /\ df_filtered_schedules[i].start_date = df_filtered_schedules[j].start_date

\* C20: when the line and schedule type match no row, Queries A, B and C each
\* return no rows and the page script runs to its end without an error.
C20_EmptyFilterGivesEmptyResults ==
    (Filtered /\ df_filtered_schedules = <<>>) =>
        /\ page # "ValueError"
        /\ TrainsPerHourDone => df_trains_per_hour = <<>>
        /\ AverageHeadwayDone => df_average_headway = <<>>
        /\ TotalTrainsDone => df_aggregate_scheduled_trains = <<>>
        /\ ENABLED NextPage \/ page = "rendered"

\* The data has rows, of the selected line too, and none of the schedule type.
C20_Witness ==
    /\ page = "rendered"
    /\ \E r \in Range(historical_schedule_data) : r.route_long_name = line
    /\ df_filtered_schedules = <<>>
    /\ df_trains_per_hour = <<>>
    /\ df_average_headway = <<>>
    /\ df_aggregate_scheduled_trains = <<>>

---------------------------------------------------------------------------
(* Properties of the page as a whole *)

\* The rows of the current schedule: those of the greatest start_date.
CurrentScheduleRows ==
    SelectSeq(historical_schedule_data,
              LAMBDA r : ToString(r.start_date) = current_effective_date)

\* C21 as stated: the trips-per-hour and average-headway results, captioned
\* as metrics of the current schedule, are computed from the rows of the
\* greatest start_date alone; rows of older effective-date files do not
\* contribute.
C21_MetricsUseCurrentScheduleOnly ==
    LET current == FilteredSchedules(CurrentScheduleRows, schedule_type, line)
    IN  /\ TrainsPerHourDone => df_trains_per_hour = TrainsPerHour(current)
        /\ AverageHeadwayDone => df_average_headway = AverageHeadway(current)

---------------------------------------------------------------------------
(***************************************************************************)
(* The GTFS fetch Lambda (src/lambdas/gtfs_data_fetch/main.py).            *)
(*                                                                         *)
(* A datetime is <<year, month, day, hour, minute, second>>.  The stored   *)
(* parameter is the string strftime writes, a sequence of characters with  *)
(* '-' as Dash and 'T' as LetterT.  A file name is the sequence of its     *)
(* parts between slashes, so that the name of a directory ends with an     *)
(* empty part.  What the CTA site, S3 and Parameter Store answer is the    *)
(* environment's choice at the moment of the call.                         *)
(***************************************************************************)

MaxFetchRuns == 2       \* invocations of the handler

Dash == 11
LetterT == 12

\* strptime's %b
MonthNumber(name) ==
    CASE name = "Jan" -> 1 [] name = "Feb" -> 2 [] name = "Mar" -> 3

\* The Last-Modified header "Mon, 23 Feb 2026 15:09:18 GMT"
HttpDate(weekday, day, month, year, hour, minute, second) ==
    [weekday |-> weekday, day |-> day, month |-> month, year |-> year,
     hour |-> hour, minute |-> minute, second |-> second, zone |-> "GMT"]

\* datetime.datetime.strptime(last_modified, "%a, %d %b %Y %H:%M:%S %Z")
ParseLastModified(header) ==
    <<header.year, MonthNumber(header.month), header.day,
      header.hour, header.minute, header.second>>

\* n written with at least width digits
RECURSIVE ZeroPadded(_, _)
ZeroPadded(n, width) ==
    IF Len(Digits(n)) >= width THEN Digits(n)
    ELSE <<0>> \o ZeroPadded(n, width - 1)

\* last_modified_dt.strftime("%Y-%m-%dT%H:%M:%S")
FormatIso(dt) ==
    ZeroPadded(dt[1], 4) \o <<Dash>> \o ZeroPadded(dt[2], 2) \o <<Dash>>
    \o ZeroPadded(dt[3], 2) \o <<LetterT>> \o ZeroPadded(dt[4], 2) \o <<Colon>>
    \o ZeroPadded(dt[5], 2) \o <<Colon>> \o ZeroPadded(dt[6], 2)

\* The fields of a string between its separators.
RECURSIVE Fields(_, _)
Fields(str, separators) ==
    LET at == {i \in DOMAIN str : str[i] \in separators}
    IN  IF at = {} THEN <<str>>
        ELSE LET first == CHOOSE i \in at : \A j \in at : i <= j
             IN  <<SubSeq(str, 1, first - 1)>>
                 \o Fields(SubSeq(str, first + 1, Len(str)), separators)

\* datetime.datetime.strptime(stored_last_modified, "%Y-%m-%dT%H:%M:%S")
ParseIso(str) ==
    LET fields == Fields(str, {Dash, LetterT, Colon})
    IN  [i \in 1..6 |-> ToInteger(fields[i])]

\* a < b as datetimes
DatetimeLess(a, b) ==
    \E k \in 1..6 : a[k] < b[k] /\ \A i \in 1..(k - 1) : a[i] = b[i]

\* Mutant: the stored time has to be later than the feed's for no update.
NotUpdatedSinceStrict(stored, dt) ==
    DatetimeLess(dt, ParseIso(stored))

\* strptime(stored_last_modified, ...) >= last_modified_dt
NotUpdatedSince(stored, dt) ==
    ~DatetimeLess(ParseIso(stored), dt)

\* The versions of google_transit.zip the site may serve: the header and
\* infolist().
FeedVersions ==
    <<[headers |-> [Last_Modified |-> HttpDate("Mon", 23, "Feb", 2026, 15, 0, 0)],
       infolist |-> <<<<"calendar.txt">>, <<"trips.txt">>>>],
      [headers |-> [Last_Modified |-> HttpDate("Mon", 23, "Feb", 2026, 15, 9, 18)],
       infolist |-> <<<<"shapes", "">>, <<"calendar.txt">>, <<"shapes", "shapes.txt">>>>]>>

\* What requests.get may return: a version of the feed, the same without the
\* Last-Modified header, or an error status.
Responses ==
    {[status |-> "ok", version |-> v, headers |-> FeedVersions[v].headers,
      infolist |-> FeedVersions[v].infolist] : v \in DOMAIN FeedVersions}
    \cup {[status |-> "ok", version |-> 1, headers |-> <<>>,
           infolist |-> FeedVersions[1].infolist]}
    \cup {[status |-> "error", version |-> 0, headers |-> <<>>, infolist |-> <<>>]}

\* The values the parameter may hold when the Lambda is first invoked.
StoredTimes ==
    {FormatIso(<<2026, 1, 31, 23, 59, 59>>),
     FormatIso(ParseLastModified(FeedVersions[1].headers.Last_Modified)),
     FormatIso(ParseLastModified(FeedVersions[2].headers.Last_Modified))}

\* file_info.is_dir(): the name ends with a slash
IsDir(filename) == filename[Len(filename)] = ""

\* f"gtfs_data/{file_info.filename}"
S3Key(filename) == <<"gtfs_data">> \o filename

\* The bucket after upload_fileobj of a file of the response under Key.
UploadFileobj(objects, key, resp) ==
    {o \in objects : o.Key # key} \cup {[Key |-> key, Body |-> resp.version]}

---------------------------------------------------------------------------
(* handler of the GTFS fetch Lambda *)

\* The expected-schedule Lambda is not running and has stored nothing.
DeriverAbsent ==
    /\ gtfs_data = [calendar |-> <<>>, routes |-> <<>>, stops |-> <<>>,
                    stop_times |-> <<>>, trips |-> <<>>]
    /\ store = NoObjects
    /\ pc = "idle"
    /\ fileIdx = 1
    /\ dataframes = NoDataframes
    /\ processed = NotProcessed
    /\ error = "none"
    /\ getCalls = <<>>
    /\ putCalls = <<>>
    /\ runs = 0
    /\ entryStore = NoObjects
    /\ log = <<>>

InitFetch ==
    /\ DeriverAbsent
    /\ PageClosed
    /\ TrainAbsent
    /\ gtfs_last_modified_time \in StoredTimes
    /\ gtfs_objects = {}
    /\ fetch_pc = "idle"
    /\ response = "None"
    /\ last_modified_dt = <<>>
    /\ stored_last_modified = <<>>
    /\ file_index = 1
    /\ upload_calls = <<>>
    /\ ssm_calls = <<>>
    /\ fetch_result = "None"
    /\ fetch_log = <<>>

FetchOthersUnchanged == UNCHANGED <<vars, pageVars, trainVars>>

\* handler(event, context) is entered.
FetchInvoke ==
    /\ fetch_pc = "idle"
    /\ Len(fetch_log) < MaxFetchRuns
    /\ fetch_pc' = "requests.get"
    /\ response' = "None"
    /\ last_modified_dt' = <<>>
    /\ file_index' = 1
    /\ upload_calls' = <<>>
    /\ ssm_calls' = <<>>
    /\ fetch_result' = "None"
    /\ UNCHANGED <<gtfs_last_modified_time, gtfs_objects, fetch_log>>
    /\ stored_last_modified' = <<>>
    /\ FetchOthersUnchanged

\* requests.get answers with an error status: raise_for_status raises.
RequestsGetFails ==
    /\ fetch_pc = "requests.get"
    /\ \E r \in {x \in Responses : x.status = "error"} : response' = r
    /\ fetch_result' = "HTTPError"
    /\ fetch_pc' = "done"
    /\ UNCHANGED <<gtfs_last_modified_time, gtfs_objects, last_modified_dt,
                   file_index, upload_calls, ssm_calls, fetch_log>>
    /\ UNCHANGED stored_last_modified
    /\ FetchOthersUnchanged

\* Mutant: the parameter is read before the header is looked at.
NoLastModifiedHeaderAfterRead ==
    /\ fetch_pc = "requests.get"
    /\ \E r \in {x \in Responses :
                    x.status = "ok" /\ "Last_Modified" \notin DOMAIN x.headers} :
          response' = r
    /\ ssm_calls' = Append(ssm_calls, "get_parameter")
    /\ fetch_result' = "ValueError"
    /\ fetch_pc' = "done"
    /\ UNCHANGED <<gtfs_last_modified_time, gtfs_objects, last_modified_dt,
                   file_index, upload_calls, fetch_log>>
    /\ UNCHANGED stored_last_modified
    /\ FetchOthersUnchanged

\* The response has no Last-Modified header.
NoLastModifiedHeader ==
    /\ fetch_pc = "requests.get"
    /\ \E r \in {x \in Responses :
                    x.status = "ok" /\ "Last_Modified" \notin DOMAIN x.headers} :
          response' = r
    /\ fetch_result' = "ValueError"
    /\ fetch_pc' = "done"
    /\ UNCHANGED <<gtfs_last_modified_time, gtfs_objects, last_modified_dt,
                   file_index, upload_calls, ssm_calls, fetch_log>>
    /\ UNCHANGED stored_last_modified
    /\ FetchOthersUnchanged

\* The response is a version of the feed; its Last-Modified is parsed.
RequestsGet ==
    /\ fetch_pc = "requests.get"
    /\ \E r \in {x \in Responses :
                    x.status = "ok" /\ "Last_Modified" \in DOMAIN x.headers} :
          /\ response' = r
          /\ last_modified_dt' = ParseLastModified(r.headers.Last_Modified)
    /\ fetch_pc' = "get_last_modified_time"
    /\ UNCHANGED <<gtfs_last_modified_time, gtfs_objects, file_index, upload_calls,
                   ssm_calls, fetch_result, fetch_log>>
    /\ UNCHANGED stored_last_modified
    /\ FetchOthersUnchanged

\* get_parameter raises ClientError, which get_last_modified_time re-raises.
GetLastModifiedTimeFails ==
    /\ fetch_pc = "get_last_modified_time"
    /\ ssm_calls' = Append(ssm_calls, "get_parameter")
    /\ fetch_result' = "ClientError"
    /\ fetch_pc' = "done"
    /\ UNCHANGED <<gtfs_last_modified_time, gtfs_objects, response, last_modified_dt,
                   file_index, upload_calls, fetch_log>>
    /\ UNCHANGED stored_last_modified
    /\ FetchOthersUnchanged

\* The stored time is not before the feed's: nothing to do.
ReturnNoUpdate ==
    /\ fetch_pc = "get_last_modified_time"
    /\ NotUpdatedSince(gtfs_last_modified_time, last_modified_dt)
    /\ ssm_calls' = Append(ssm_calls, "get_parameter")
    /\ fetch_result' = "no_update"
    /\ fetch_pc' = "done"
    /\ UNCHANGED <<gtfs_last_modified_time, gtfs_objects, response, last_modified_dt,
                   file_index, upload_calls, fetch_log>>
    /\ stored_last_modified' = gtfs_last_modified_time
    /\ FetchOthersUnchanged

\* The stored time is before the feed's: upload_gtfs_zip_to_s3 is entered.
StartUpload ==
    /\ fetch_pc = "get_last_modified_time"
    /\ ~NotUpdatedSince(gtfs_last_modified_time, last_modified_dt)
    /\ ssm_calls' = Append(ssm_calls, "get_parameter")
    /\ fetch_pc' = "upload_gtfs_zip_to_s3"
    /\ UNCHANGED <<gtfs_last_modified_time, gtfs_objects, response, last_modified_dt,
                   file_index, upload_calls, fetch_result, fetch_log>>
    /\ stored_last_modified' = gtfs_last_modified_time
    /\ FetchOthersUnchanged

\* The next entry of the zip is a directory.
SkipDirectory ==
    /\ fetch_pc = "upload_gtfs_zip_to_s3"
    /\ file_index <= Len(response.infolist)
    /\ IsDir(response.infolist[file_index])
    /\ file_index' = file_index + 1
    /\ UNCHANGED <<gtfs_last_modified_time, gtfs_objects, fetch_pc, response,
                   last_modified_dt, upload_calls, ssm_calls, fetch_result, fetch_log>>
    /\ UNCHANGED stored_last_modified
    /\ FetchOthersUnchanged

\* Mutant: a directory entry is uploaded like a file.
UploadFileOrDirectory ==
    /\ fetch_pc = "upload_gtfs_zip_to_s3"
    /\ file_index <= Len(response.infolist)
    /\ LET key == S3Key(response.infolist[file_index])
       IN  /\ upload_calls' = Append(upload_calls, [Key |-> key, ok |-> TRUE])
           /\ gtfs_objects' = UploadFileobj(gtfs_objects, key, response)
    /\ file_index' = file_index + 1
    /\ UNCHANGED <<gtfs_last_modified_time, fetch_pc, response, last_modified_dt,
                   ssm_calls, fetch_result, fetch_log>>
    /\ UNCHANGED stored_last_modified
    /\ FetchOthersUnchanged

\* The next entry is a file and upload_fileobj stores it.
UploadFile ==
    /\ fetch_pc = "upload_gtfs_zip_to_s3"
    /\ file_index <= Len(response.infolist)
    /\ ~IsDir(response.infolist[file_index])
    /\ LET key == S3Key(response.infolist[file_index])
       IN  /\ upload_calls' = Append(upload_calls, [Key |-> key, ok |-> TRUE])
           /\ gtfs_objects' = UploadFileobj(gtfs_objects, key, response)
    /\ file_index' = file_index + 1
    /\ UNCHANGED <<gtfs_last_modified_time, fetch_pc, response, last_modified_dt,
                   ssm_calls, fetch_result, fetch_log>>
    /\ UNCHANGED stored_last_modified
    /\ FetchOthersUnchanged

\* Mutant: the ClientError of upload_fileobj leaves the function.
UploadFileFailsRaises ==
    /\ fetch_pc = "upload_gtfs_zip_to_s3"
    /\ file_index <= Len(response.infolist)
    /\ ~IsDir(response.infolist[file_index])
    /\ upload_calls' = Append(upload_calls,
                              [Key |-> S3Key(response.infolist[file_index]), ok |-> FALSE])
    /\ fetch_result' = "ClientError"
    /\ fetch_pc' = "done"
    /\ UNCHANGED <<gtfs_last_modified_time, gtfs_objects, response, last_modified_dt,
                   file_index, ssm_calls, fetch_log>>
    /\ UNCHANGED stored_last_modified
    /\ FetchOthersUnchanged

\* The next entry is a file and upload_fileobj raises ClientError: logged,
\* and the loop continues.
UploadFileFails ==
    /\ fetch_pc = "upload_gtfs_zip_to_s3"
    /\ file_index <= Len(response.infolist)
    /\ ~IsDir(response.infolist[file_index])
    /\ upload_calls' = Append(upload_calls,
                              [Key |-> S3Key(response.infolist[file_index]), ok |-> FALSE])
    /\ file_index' = file_index + 1
    /\ UNCHANGED <<gtfs_last_modified_time, gtfs_objects, fetch_pc, response,
                   last_modified_dt, ssm_calls, fetch_result, fetch_log>>
    /\ UNCHANGED stored_last_modified
    /\ FetchOthersUnchanged

\* Mutant: the parameter is written although put_parameter's error is raised.
UpdateLastModifiedTimeFailsLate ==
    /\ fetch_pc = "upload_gtfs_zip_to_s3"
    /\ file_index > Len(response.infolist)
    /\ ssm_calls' = Append(ssm_calls, "put_parameter")
    /\ gtfs_last_modified_time' = FormatIso(last_modified_dt)
    /\ fetch_result' = "ClientError"
    /\ fetch_pc' = "done"
    /\ UNCHANGED <<gtfs_objects, response, last_modified_dt, file_index,
                   upload_calls, fetch_log>>
    /\ UNCHANGED stored_last_modified
    /\ FetchOthersUnchanged

\* Every entry is done; put_parameter raises ClientError, which
\* update_last_modified_time re-raises.
UpdateLastModifiedTimeFails ==
    /\ fetch_pc = "upload_gtfs_zip_to_s3"
    /\ file_index > Len(response.infolist)
    /\ ssm_calls' = Append(ssm_calls, "put_parameter")
    /\ fetch_result' = "ClientError"
    /\ fetch_pc' = "done"
    /\ UNCHANGED <<gtfs_last_modified_time, gtfs_objects, response, last_modified_dt,
                   file_index, upload_calls, fetch_log>>
    /\ UNCHANGED stored_last_modified
    /\ FetchOthersUnchanged

\* Every entry is done; the parameter is overwritten and the handler returns.
UpdateLastModifiedTime ==
    /\ fetch_pc = "upload_gtfs_zip_to_s3"
    /\ file_index > Len(response.infolist)
    /\ ssm_calls' = Append(ssm_calls, "put_parameter")
    /\ gtfs_last_modified_time' = FormatIso(last_modified_dt)
    /\ fetch_result' = "updated"
    /\ fetch_pc' = "done"
    /\ UNCHANGED <<gtfs_objects, response, last_modified_dt, file_index,
                   upload_calls, fetch_log>>
    /\ UNCHANGED stored_last_modified
    /\ FetchOthersUnchanged

\* The invocation is over; what it did is kept for the next one to be
\* compared with.
FetchReturn ==
    /\ fetch_pc = "done"
    /\ fetch_log' = Append(fetch_log,
                           [result |-> fetch_result,
                            version |-> response.version,
                            headers |-> response.headers,
                            uploads |-> upload_calls])
    /\ fetch_pc' = "idle"
    /\ UNCHANGED <<gtfs_last_modified_time, gtfs_objects, response, last_modified_dt,
                   file_index, upload_calls, ssm_calls, fetch_result>>
    /\ UNCHANGED stored_last_modified
    /\ FetchOthersUnchanged

NextFetch ==
    \/ FetchInvoke
    \/ RequestsGetFails
    \/ NoLastModifiedHeader
    \/ RequestsGet
    \/ GetLastModifiedTimeFails
    \/ ReturnNoUpdate
    \/ StartUpload
    \/ SkipDirectory
    \/ UploadFile
    \/ UploadFileFails
    \/ UpdateLastModifiedTimeFails
    \/ UpdateLastModifiedTime
    \/ FetchReturn

SpecFetch == InitFetch /\ [][NextFetch]_allVars

---------------------------------------------------------------------------
(* Properties of the GTFS fetch Lambda *)

\* The time of the response's Last-Modified header.
FeedTime == ParseLastModified(response.headers.Last_Modified)

\* The keys of the files of the response's zip, in the order of the zip.
FileKeys ==
    LET files == SelectSeq(response.infolist, LAMBDA name : ~IsDir(name))
    IN  [i \in DOMAIN files |-> S3Key(files[i])]

\* The keys upload_fileobj was called with, in the order of the calls.
UploadedKeys == [i \in DOMAIN upload_calls |-> upload_calls[i].Key]

\* C22: when the stored watermark is at or after the feed's Last-Modified the
\* handler returns 'no_update' with no upload and no parameter write; when it
\* is before, the handler uploads the zip's files, then writes the feed's
\* Last-Modified as %Y-%m-%dT%H:%M:%S and returns 'updated'.
C22_WatermarkDecidesUpdate ==
    /\ fetch_result = "no_update" =>
           /\ ~DatetimeLess(ParseIso(stored_last_modified), FeedTime)
           /\ upload_calls = <<>>
           /\ ssm_calls = <<"get_parameter">>
           /\ gtfs_last_modified_time = stored_last_modified
    /\ fetch_result = "updated" =>
           /\ DatetimeLess(ParseIso(stored_last_modified), FeedTime)
           /\ UploadedKeys = FileKeys
           /\ ssm_calls = <<"get_parameter", "put_parameter">>
           /\ gtfs_last_modified_time = FormatIso(FeedTime)
    /\ (fetch_pc = "upload_gtfs_zip_to_s3" \/ "put_parameter" \in Range(ssm_calls)) =>
           DatetimeLess(ParseIso(stored_last_modified), FeedTime)

\* An invocation returned 'updated' with the watermark written as the
\* string of the header's time, after one returned 'no_update' on equal times.
C22_Witness ==
    /\ fetch_pc = "done"
    /\ fetch_result = "updated"
    /\ gtfs_last_modified_time
           = <<2, 0, 2, 6, Dash, 0, 2, Dash, 2, 3, LetterT, 1, 5, Colon, 0, 9, Colon, 1, 8>>
    /\ Len(fetch_log) = 1
    /\ fetch_log[1].result = "no_update"
    /\ fetch_log[1].version = 1
    /\ stored_last_modified = FormatIso(ParseLastModified(fetch_log[1].headers.Last_Modified))


\* C23: when the HTTP fetch fails or the response has no Last-Modified header
\* the handler raises without a Parameter Store call and without an upload.
C23_FetchFailureTouchesNothing ==
    fetch_result \in {"HTTPError", "ValueError"} =>
        /\ ssm_calls = <<>>
        /\ upload_calls = <<>>
        /\ stored_last_modified = <<>>

\* The invocation raised ValueError on a response without the header, after
\* an invocation that had stored files and a watermark.
C23_Witness ==
    /\ fetch_pc = "done"
    /\ fetch_result = "ValueError"
    /\ response.status = "ok"
    /\ Len(fetch_log) = 1
    /\ fetch_log[1].result = "updated"
    /\ gtfs_objects # {}

\* The entries of the zip that upload_gtfs_zip_to_s3 has gone through.
EntriesDone == SubSeq(response.infolist, 1, file_index - 1)

\* C24: upload_gtfs_zip_to_s3 calls upload_fileobj once, with Key
\* gtfs_data/<filename>, for every entry of the zip that is not a directory
\* and for no directory; a ClientError of one call does not stop the calls
\* for the entries after it and does not leave the function.
C24_OneUploadAttemptPerFile ==
    /\ fetch_pc = "upload_gtfs_zip_to_s3" =>
           LET files == SelectSeq(EntriesDone, LAMBDA name : name[Len(name)] # "")
           IN  UploadedKeys = [i \in DOMAIN files |-> <<"gtfs_data">> \o files[i]]
    /\ "put_parameter" \in Range(ssm_calls) =>
           /\ file_index = Len(response.infolist) + 1
           /\ UploadedKeys = FileKeys
    /\ (fetch_pc = "done" /\ upload_calls # <<>>) => "put_parameter" \in Range(ssm_calls)

\* The zip has a directory and two files; the upload of the first file
\* failed and the second was still attempted, and the function returned.
C24_Witness ==
    /\ "put_parameter" \in Range(ssm_calls)
    /\ \E i \in DOMAIN response.infolist : IsDir(response.infolist[i])
    /\ Len(upload_calls) = 2
    /\ ~upload_calls[1].ok
    /\ upload_calls[2].ok
    /\ upload_calls[2].Key = <<"gtfs_data", "shapes", "shapes.txt">>


\* The invocation that has just ended follows one that returned 'updated'
\* and was served the same version of the feed, header included.
FollowsUpdateOfSameFeed ==
    /\ fetch_pc = "done"
    /\ fetch_log # <<>>
    /\ fetch_log[Len(fetch_log)].result = "updated"
    /\ response.status = "ok"
    /\ response.version = fetch_log[Len(fetch_log)].version
    /\ "Last_Modified" \in DOMAIN response.headers

\* What C28 asks of every step of the handler.
WatermarkStep ==
    /\ ~DatetimeLess(ParseIso(gtfs_last_modified_time'), ParseIso(gtfs_last_modified_time))
    /\ gtfs_last_modified_time' # gtfs_last_modified_time =>
           /\ fetch_result' = "updated"
           /\ fetch_pc' = "done"
    /\ FollowsUpdateOfSameFeed' =>
           /\ upload_calls' = <<>>
           /\ gtfs_objects' = gtfs_objects
           /\ \/ fetch_result' = "no_update"
              \/ fetch_result' = "ClientError" /\ ssm_calls' = <<"get_parameter">>

\* C28: over invocations of the handler one after another the stored
\* watermark never goes back and changes only in an invocation that returns
\* 'updated'; the invocation after an 'updated' one, served the same feed,
\* uploads nothing and, when Parameter Store answers, returns 'no_update'.
C28_WatermarkOnlyAdvances == [][WatermarkStep]_allVars

\* The second invocation returned 'no_update' on the feed the first one had
\* stored with 'updated'.
C28_Witness ==
    /\ FollowsUpdateOfSameFeed
    /\ fetch_result = "no_update"
    /\ gtfs_last_modified_time = FormatIso(FeedTime)
    /\ gtfs_objects # {}

\* C29 as stated: whenever the handler has advanced the watermark to a feed
\* version and returned 'updated', every file of that version's zip is stored
\* under gtfs_data/.
C29_UpdatedMeansEveryFileStored ==
    fetch_result = "updated" =>
        \A i \in DOMAIN FileKeys :
            [Key |-> FileKeys[i], Body |-> response.version] \in gtfs_objects

---------------------------------------------------------------------------
(***************************************************************************)
(* The train location Lambda (src/lambdas/train_location_fetch/main.py).   *)
(*                                                                         *)
(* The handler submits one fetch_cta_data call per train line to a thread  *)
(* pool that has a thread for each, so the calls run at once: a step of    *)
(* the model is one HTTP attempt of one call, or one step of the handler.  *)
(* Whether an attempt succeeds is the environment's choice.                *)
(***************************************************************************)

MaxLines == 3           \* train lines the handler fetches, of the eight
MaxRetries == 3         \* greatest max_retries of a direct call

DefaultMaxRetries == 2

ALL_TRAIN_LINES == <<"blue", "brn", "g", "org", "p", "pink", "red", "y">>

train_lines == SubSeq(ALL_TRAIN_LINES, 1, MaxLines)

\* context.function_name, split at '-'
FunctionNames ==
    {<<"cta", "train", "location", "fetch">>,
     <<"cta", "train", "location", "fetch", "test">>}

\* context.function_name.endswith("-test")
EndsWithTest(name) == Len(name) > 1 /\ name[Len(name)] = "test"

\* 2**attempt
RECURSIVE Pow2(_)
Pow2(k) == IF k = 0 THEN 1 ELSE 2 * Pow2(k - 1)

\* A call fetch_cta_data(line, api_key, max_retries) that has just started.
NewCall(max_retries) ==
    [max_retries |-> max_retries,
     attempt |-> 0,                 \* the loop variable
     requests |-> 0,                \* requests.get calls made
     sleeps |-> <<>>,               \* time.sleep calls made, their arguments
     state |-> "running",
     result |-> <<>>,               \* <<what the call returned>>
     exception |-> "None"]          \* what the call raised

\* response.json() of a successful request for the line
Json(name) == [ctatt |-> name]

\* Steps of a call leave the handler's own variables alone.
CallStep(name, call, done) ==
    /\ futures' = [futures EXCEPT ![name] = call]
    /\ completed' = IF done THEN Append(completed, name) ELSE completed
    /\ UNCHANGED <<function_name, train_pc, yield_queue, yielded, all_data,
                   payload, firehose, train_result>>
    /\ UNCHANGED <<vars, pageVars, fetchVars>>

\* An attempt succeeds: the call returns response.json().
AttemptSucceeds(name) ==
    /\ futures[name].state = "running"
    /\ CallStep(name,
                [futures[name] EXCEPT !.requests = @ + 1,
                                      !.state = "returned",
                                      !.result = <<Json(name)>>],
                TRUE)

\* Mutant: the call sleeps after its last attempt too and tries once more.
AttemptFailsOnceMore(name) ==
    /\ futures[name].state = "running"
    /\ futures[name].attempt < futures[name].max_retries + 1
    /\ CallStep(name,
                [futures[name] EXCEPT !.requests = @ + 1,
                                      !.sleeps = Append(@, Pow2(futures[name].attempt)),
                                      !.attempt = @ + 1],
                FALSE)

\* An attempt fails with attempts left: the call sleeps 2**attempt seconds
\* and goes round the loop.
AttemptFails(name) ==
    /\ futures[name].state = "running"
    /\ futures[name].attempt < futures[name].max_retries
    /\ CallStep(name,
                [futures[name] EXCEPT !.requests = @ + 1,
                                      !.sleeps = Append(@, Pow2(futures[name].attempt)),
                                      !.attempt = @ + 1],
                FALSE)

\* The last attempt fails: the call re-raises the request error.
LastAttemptFails(name) ==
    /\ futures[name].state = "running"
    /\ futures[name].attempt >= futures[name].max_retries
    /\ CallStep(name,
                [futures[name] EXCEPT !.requests = @ + 1,
                                      !.state = "raised",
                                      !.exception = "RequestException"],
                TRUE)

\* fetch_cta_data called by itself, for any line and any max_retries.
InitRetry ==
    /\ DeriverAbsent
    /\ PageClosed
    /\ FetchAbsent
    /\ function_name = <<>>
    /\ train_pc = "fetch_cta_data"
    /\ \E name \in Range(ALL_TRAIN_LINES), n \in 0..MaxRetries :
          futures = [l \in {name} |-> NewCall(n)]
    /\ completed = <<>>
    /\ yield_queue = <<>>
    /\ yielded = <<>>
    /\ all_data = <<>>
    /\ payload = <<>>
    /\ firehose = <<>>
    /\ train_result = [outcome |-> "none"]

\* One attempt of one of the calls under way.
FetchReturns == \E name \in DOMAIN futures : AttemptSucceeds(name)
FetchRetries == \E name \in DOMAIN futures : AttemptFails(name)
FetchRaises == \E name \in DOMAIN futures : LastAttemptFails(name)

NextRetry ==
    \/ FetchReturns
    \/ FetchRetries
    \/ FetchRaises

\* requests.get has a timeout, so an attempt under way ends.
SpecRetry == InitRetry /\ [][NextRetry]_allVars /\ WF_allVars(NextRetry)

---------------------------------------------------------------------------
(* handler of the train location Lambda *)

\* datetime.datetime.now(datetime.timezone.utc).isoformat()
current_time == "2026-02-23T15:09:18+00:00"

InitTrain ==
    /\ DeriverAbsent
    /\ PageClosed
    /\ FetchAbsent
    /\ function_name \in FunctionNames
    /\ train_pc = "idle"
    /\ futures = <<>>
    /\ completed = <<>>
    /\ yield_queue = <<>>
    /\ yielded = <<>>
    /\ all_data = <<>>
    /\ payload = <<>>
    /\ firehose = <<>>
    /\ train_result = [outcome |-> "none"]

TrainOthersUnchanged == UNCHANGED <<vars, pageVars, fetchVars>>

\* The handler is entered and submits fetch_cta_data(line, api_key) for every
\* line; the pool starts each call at once.
Submit ==
    /\ train_pc = "idle"
    /\ futures' = [name \in Range(train_lines) |-> NewCall(DefaultMaxRetries)]
    /\ train_pc' = "submitted"
    /\ UNCHANGED <<function_name, completed, yield_queue, yielded, all_data,
                   payload, firehose, train_result>>
    /\ TrainOthersUnchanged

\* The orders in which a set of futures may be listed.
Orders(S) ==
    {q \in [1..Cardinality(S) -> S] : \A x \in S : \E i \in DOMAIN q : q[i] = x}

\* as_completed(future_to_url) is called: the futures that have finished by
\* now are yielded first, in the order of a set; the others as they finish.
AsCompleted ==
    /\ train_pc = "submitted"
    /\ yield_queue' \in Orders(Range(completed))
    /\ train_pc' = "as_completed"
    /\ UNCHANGED <<function_name, futures, completed, yielded, all_data,
                   payload, firehose, train_result>>
    /\ TrainOthersUnchanged

\* The future as_completed yields next, when there is one: the head of the
\* futures found finished at the call, then the earliest finished of the rest.
NextYield ==
    IF yield_queue # <<>> THEN <<Head(yield_queue)>>
    ELSE LET waiting == SelectSeq(completed, LAMBDA name : name \notin Range(yielded))
         IN  IF waiting = <<>> THEN <<>> ELSE <<Head(waiting)>>

\* Mutant: the result of a future is appended for every future still to be
\* yielded as well.
AppendResultTwice ==
    /\ train_pc = "as_completed"
    /\ NextYield # <<>>
    /\ futures[NextYield[1]].state = "returned"
    /\ all_data' = all_data \o futures[NextYield[1]].result
                                 \o futures[NextYield[1]].result
    /\ yielded' = Append(yielded, NextYield[1])
    /\ yield_queue' = IF yield_queue # <<>> THEN Tail(yield_queue) ELSE yield_queue
    /\ UNCHANGED <<function_name, train_pc, futures, completed, payload, firehose,
                   train_result>>
    /\ TrainOthersUnchanged

\* The loop body for a future whose call returned: its data is appended.
AppendResult ==
    /\ train_pc = "as_completed"
    /\ NextYield # <<>>
    /\ futures[NextYield[1]].state = "returned"
    /\ all_data' = Append(all_data, futures[NextYield[1]].result[1])
    /\ yielded' = Append(yielded, NextYield[1])
    /\ yield_queue' = IF yield_queue # <<>> THEN Tail(yield_queue) ELSE yield_queue
    /\ UNCHANGED <<function_name, train_pc, futures, completed, payload, firehose,
                   train_result>>
    /\ TrainOthersUnchanged

\* Mutant: the exception of a future leaves the handler.
FutureErrorRaised ==
    /\ train_pc = "as_completed"
    /\ NextYield # <<>>
    /\ futures[NextYield[1]].state = "raised"
    /\ train_result' = [outcome |-> "raised", error |-> "RequestException"]
    /\ train_pc' = "done"
    /\ UNCHANGED <<function_name, futures, completed, yield_queue, yielded, all_data,
                   payload, firehose>>
    /\ TrainOthersUnchanged

\* The loop body for a future whose call raised: the error is logged.
LogFutureError ==
    /\ train_pc = "as_completed"
    /\ NextYield # <<>>
    /\ futures[NextYield[1]].state = "raised"
    /\ yielded' = Append(yielded, NextYield[1])
    /\ yield_queue' = IF yield_queue # <<>> THEN Tail(yield_queue) ELSE yield_queue
    /\ UNCHANGED <<function_name, train_pc, futures, completed, all_data, payload,
                   firehose, train_result>>
    /\ TrainOthersUnchanged

\* json.dumps({"timestamp": current_time, "data": all_data}) + "\n"
Payload(data) == <<[timestamp |-> current_time, data |-> data], "\n">>

\* Every future has been yielded: the pool is left and the payload built.
BuildPayload ==
    /\ train_pc = "as_completed"
    /\ Range(yielded) = DOMAIN futures
    /\ payload' = Payload(all_data)
    /\ train_pc' = "payload"
    /\ UNCHANGED <<function_name, futures, completed, yield_queue, yielded, all_data,
                   firehose, train_result>>
    /\ TrainOthersUnchanged

\* Mutant: the test function publishes as well.
PublishAlways ==
    /\ train_pc = "payload"
    /\ EndsWithTest(function_name)
    /\ firehose' = Append(firehose, payload)
    /\ train_result' = [outcome |-> "returned", status |-> "success",
                        count |-> Len(all_data)]
    /\ train_pc' = "done"
    /\ UNCHANGED <<function_name, futures, completed, yield_queue, yielded, all_data,
                   payload>>
    /\ TrainOthersUnchanged

\* The function name ends with -test: nothing is published.
SkipFirehose ==
    /\ train_pc = "payload"
    /\ EndsWithTest(function_name)
    /\ train_result' = [outcome |-> "returned", status |-> "success",
                        count |-> Len(all_data)]
    /\ train_pc' = "done"
    /\ UNCHANGED <<function_name, futures, completed, yield_queue, yielded, all_data,
                   payload, firehose>>
    /\ TrainOthersUnchanged

\* write_to_firehose puts the record and the handler returns.
WriteToFirehose ==
    /\ train_pc = "payload"
    /\ ~EndsWithTest(function_name)
    /\ firehose' = Append(firehose, payload)
    /\ train_result' = [outcome |-> "returned", status |-> "success",
                        count |-> Len(all_data)]
    /\ train_pc' = "done"
    /\ UNCHANGED <<function_name, futures, completed, yield_queue, yielded, all_data,
                   payload>>
    /\ TrainOthersUnchanged

\* put_record raises ClientError, which write_to_firehose re-raises.
WriteToFirehoseFails ==
    /\ train_pc = "payload"
    /\ ~EndsWithTest(function_name)
    /\ train_result' = [outcome |-> "raised", error |-> "ClientError"]
    /\ train_pc' = "done"
    /\ UNCHANGED <<function_name, futures, completed, yield_queue, yielded, all_data,
                   payload, firehose>>
    /\ TrainOthersUnchanged

NextTrain ==
    \/ Submit
    \/ FetchReturns
    \/ FetchRetries
    \/ FetchRaises
    \/ AsCompleted
    \/ AppendResult
    \/ LogFutureError
    \/ BuildPayload
    \/ SkipFirehose
    \/ WriteToFirehose
    \/ WriteToFirehoseFails

SpecTrain == InitTrain /\ [][NextTrain]_allVars

---------------------------------------------------------------------------
(* Properties of fetch_cta_data *)

\* What C25 asks of a call at every moment.
CallWithinRetries(call) ==
    /\ call.requests <= call.max_retries + 1
    /\ Len(call.sleeps) <= call.max_retries
    /\ \A k \in DOMAIN call.sleeps : call.sleeps[k] = 2 ^ (k - 1)
    /\ call.state = "running" =>
           /\ call.requests = Len(call.sleeps)
           /\ call.result = <<>>
           /\ call.exception = "None"
    /\ call.state = "returned" =>
           /\ call.requests = Len(call.sleeps) + 1
           /\ Len(call.result) = 1
           /\ call.exception = "None"
    /\ call.state = "raised" =>
           /\ call.requests = call.max_retries + 1
           /\ Len(call.sleeps) = call.max_retries
           /\ call.result = <<>>
           /\ call.exception = "RequestException"

\* C25: fetch_cta_data(line, key, max_retries = n) ends after at most n + 1
\* HTTP attempts: it returns the response of the first attempt that succeeds
\* and makes no more, sleeps 2^k seconds after the k-th failed attempt
\* (k = 0..n-1) and not after the last, and re-raises the request error when
\* all n + 1 attempts have failed.
C25_FetchEndsWithinRetries ==
    /\ [](\A name \in DOMAIN futures : CallWithinRetries(futures[name]))
    /\ <>(\A name \in DOMAIN futures : futures[name].state # "running")
    /\ [][\A name \in DOMAIN futures :
             futures[name].state # "running" => futures'[name] = futures[name]]_allVars

\* A call with max_retries = 3 returned on its fourth attempt after sleeping
\* 1, 2 and 4 seconds.
C25_Witness ==
    \E name \in DOMAIN futures :
        /\ futures[name].max_retries = 3
        /\ futures[name].state = "returned"
        /\ futures[name].requests = 4
        /\ futures[name].sleeps = <<1, 2, 4>>
        /\ futures[name].result = <<[ctatt |-> name]>>

---------------------------------------------------------------------------
(* Properties of the train location handler *)

\* The lines whose fetch_cta_data call ended in the given state.
LinesIn(state) == {name \in DOMAIN futures : futures[name].state = state}

\* C26: when the handler returns, the status is "success" and the count is
\* the number of lines whose fetch succeeded, between 0 and the number of
\* lines; the data holds the result of exactly those lines, a failed line is
\* left out, and no fetch failure is raised by the handler.
C26_CountIsSuccessfulLines ==
    /\ train_result.outcome = "returned" =>
           /\ train_result.status = "success"
           /\ train_result.count = Cardinality(LinesIn("returned"))
           /\ train_result.count \in 0..Len(train_lines)
           /\ Len(train_lines) <= Len(ALL_TRAIN_LINES)
           /\ Len(all_data) = train_result.count
           /\ Range(all_data) = {Json(name) : name \in LinesIn("returned")}
           /\ LinesIn("returned") \cup LinesIn("raised") = Range(train_lines)
    /\ train_result.outcome = "raised" => train_result.error # "RequestException"

C26_Witness ==
    /\ train_result.outcome = "returned"
    /\ LinesIn("raised") # {}
    /\ LinesIn("returned") # {}
    /\ train_result.count = Len(train_lines) - Cardinality(LinesIn("raised"))

\* C27: an invocation puts at most one record on the delivery stream, and
\* only when every fetch has ended: the record is the timestamp and the
\* collected data followed by a newline. A function whose name ends with
\* -test puts nothing; any other returns only after its one record was put,
\* and a failed put ends the invocation with the error, not with a result.
C27_PublishesOnceAfterAllFetches ==
    /\ Len(firehose) <= 1
    /\ firehose # <<>> =>
           /\ ~EndsWithTest(function_name)
           /\ LinesIn("running") = {}
           /\ DOMAIN futures = Range(train_lines)
           /\ firehose[1] = <<[timestamp |-> current_time, data |-> all_data], "\n">>
           /\ train_result.outcome = "returned"
    /\ EndsWithTest(function_name) => firehose = <<>>
    /\ train_result.outcome = "returned" /\ ~EndsWithTest(function_name) =>
           Len(firehose) = 1
    /\ train_result.outcome = "raised" =>
           /\ firehose = <<>>
           /\ ~EndsWithTest(function_name)
           /\ train_result.error = "ClientError"
           /\ DOMAIN train_result = {"outcome", "error"}

C27_Witness ==
    /\ ~EndsWithTest(function_name)
    /\ train_result.outcome = "returned"
    /\ Len(firehose) = 1
    /\ Len(firehose[1][1].data) = 2
    /\ LinesIn("raised") # {}

\* The results of the calls that returned, in the given order of lines.
ResultsOf(order) ==
    LET returned == SelectSeq(order, LAMBDA name : futures[name].state = "returned")
    IN  [i \in DOMAIN returned |-> Json(returned[i])]

\* Every line has one call of its own, and a payload is built only when all
\* calls have ended and have been collected, none lost and none twice.
CollectedOnce ==
    /\ \A i, j \in DOMAIN train_lines : train_lines[i] = train_lines[j] => i = j
    /\ train_pc # "idle" => DOMAIN futures = Range(train_lines)
    /\ \A i, j \in DOMAIN all_data : all_data[i] = all_data[j] => i = j
    /\ Range(all_data) \subseteq {Json(name) : name \in LinesIn("returned")}
    /\ payload # <<>> =>
           /\ LinesIn("running") = {}
           /\ Range(completed) = DOMAIN futures
           /\ Len(completed) = Len(train_lines)
           /\ payload = Payload(all_data)
           /\ Range(all_data) = {Json(name) : name \in LinesIn("returned")}

\* C30 as stated: every line has one call, every successful result is in the
\* collected data once, the data is in the order in which the calls
\* completed, and the payload is built only after all calls have ended.
C30_CollectedInCompletionOrder ==
    /\ CollectedOnce
    /\ payload # <<>> => all_data = ResultsOf(completed)

\* C30 amended: as stated, except for the order: the results of the calls
\* that had ended before the collection began come first, in any order, and
\* the results of the others follow in the order in which they completed.
C30_CollectedOnceLateOnesInCompletionOrder ==
    /\ CollectedOnce
    /\ payload # <<>> =>
           /\ all_data = ResultsOf(yielded)
           /\ \E k \in 0..Len(completed) :
                  /\ Range(SubSeq(yielded, 1, k)) = Range(SubSeq(completed, 1, k))
                  /\ SubSeq(yielded, k + 1, Len(yielded))
                         = SubSeq(completed, k + 1, Len(completed))

C30_Witness ==
    /\ payload # <<>>
    /\ Len(all_data) >= 2
    /\ all_data # ResultsOf(completed)
    /\ yielded[Len(yielded)] = completed[Len(completed)]
    /\ LinesIn("raised") # {}

====
